---------------------------- MODULE Spec2Model ----------------------------
(***************************************************************************)
(* Model of the "My List" service: MyListService (add / remove / list with *)
(* offset and cursor pagination) over a MongoDB collection with a unique   *)
(* (user_id, content_id) index, and CacheService (Redis get / setex / scan *)
(* / del) with keys derived from the pagination parameters.                *)
(*                                                                         *)
(* Strings are finite sequences of tokens (one token is a character or an  *)
(* atomic word of a template literal).  undefined, null and '' are falsy   *)
(* in the code and are never told apart by it; all three are <<>>.         *)
(***************************************************************************)
EXTENDS Integers, Sequences, FiniteSets, TLC

VARIABLES
    store,      \* the my-list collection: a set of documents
    nextId,     \* next _id the driver hands out
    clock,      \* the value new Date() returns
    ver,        \* history: per user, number of writes applied to the store
    acked,      \* history: per user, highest write version acknowledged
    cache,      \* Redis: key -> [data, ver]; ver is history, not program state
    cacheUp,    \* Redis answers commands
    outage,     \* history: Redis has failed at some time
    hist,       \* history: per user, the responses per key since the last write or
                \* expiry (reads), the keys a sweep has deleted (swept), the ids
                \* of the entries created (owned), the last write applied (last)
    pc,         \* per request slot: position in the handler
    req,        \* per request slot: the request being served
    loc,        \* per request slot: local variables of the handler
    res,        \* per request slot: the HTTP response
    started,    \* number of requests started so far
    serial,     \* TRUE: each user issues one request at a time
    budget,     \* number of requests the clients issue
    walk,       \* a client following nextCursor / page numbers
    keyq,       \* two list requests whose cache keys are compared
    codec,      \* a cursor position being encoded and decoded
    pageq,      \* one page query against a fixed store
    http,       \* one HTTP exchange passing through the middleware chain
    catalog,    \* a TV show of the catalog and the snapshot an add stores of it
    hits        \* the rate limiters' stores: per limiter and key, the hits of the window

vars == <<store, nextId, clock, ver, acked, cache, cacheUp, outage, hist,
          pc, req, loc, res, started, serial, budget, walk, keyq,
          codec, pageq, http, catalog, hits>>

-----------------------------------------------------------------------------
(* Bounds of the model *)

MaxRequests == 2
MaxSerialRequests == 3
MaxClock == 2
MaxWalkEntries == 3
MaxWalkLimit == 3
MaxPage == 3
MaxCodecDate == 12
MaxCodecId == 12
ScanBuckets == 2

-----------------------------------------------------------------------------
(* Text *)

Digits == <<"0", "1", "2", "3", "4", "5", "6", "7", "8", "9">>

IsDigit(c) == \E i \in 1..10 : Digits[i] = c

DigitVal(c) == (CHOOSE i \in 1..10 : Digits[i] = c) - 1

\* String(n) / template literal ${n} for a non-negative integer
RECURSIVE Str(_)
Str(n) == IF n < 10 THEN <<Digits[n + 1]>>
          ELSE Str(n \div 10) \o <<Digits[(n % 10) + 1]>>

AllDigits(s) == Len(s) > 0 /\ \A i \in 1..Len(s) : IsDigit(s[i])

RECURSIVE ParseNat(_)
ParseNat(s) == IF Len(s) = 0 THEN 0
               ELSE 10 * ParseNat(SubSeq(s, 1, Len(s) - 1)) + DigitVal(s[Len(s)])

IsPrefix(p, s) == Len(p) <= Len(s) /\ SubSeq(s, 1, Len(p)) = p

Take(s, n) == SubSeq(s, 1, IF n < Len(s) THEN n ELSE Len(s))

Min(a, b) == IF a < b THEN a ELSE b

\* x || dflt for strings: '' and undefined are falsy
OrElse(x, dflt) == IF x = <<>> THEN dflt ELSE x


-----------------------------------------------------------------------------
(* CacheService: key derivation *)

\* env.CACHE_TTL_SECONDS, in seconds
CACHE_TTL_SECONDS == 300

getOffsetCacheKey(userId, page, limit) ==
    <<"mylist", ":">> \o userId \o <<":", "offset", ":", "page", ":">>
        \o Str(page) \o <<":", "limit", ":">> \o Str(limit)

getCursorCacheKey(userId, cursor, limit) ==
    LET cursorPart == OrElse(cursor, <<"first">>)
    IN  <<"mylist", ":">> \o userId \o <<":", "cursor", ":">>
            \o cursorPart \o <<":", "limit", ":">> \o Str(limit)

\* a sweep pattern without the separator after the user id
PrefixPattern(userId) == <<"mylist", ":">> \o userId \o <<"*">>

\* a sweep pattern that covers the offset keys only
OffsetOnlyPattern(userId) == <<"mylist", ":">> \o userId \o <<":", "offset", ":", "*">>

getUserCachePattern(userId) == <<"mylist", ":">> \o userId \o <<":", "*">>

\* params.page || 1 : page 0 stands for an undefined page
getCacheKey(userId, type, page, cursor, limit) ==
    IF type = "offset"
    THEN getOffsetCacheKey(userId, IF page = 0 THEN 1 ELSE page, limit)
    ELSE getCursorCacheKey(userId, cursor, limit)

\* the user id a cache key was derived from: the segment between the first and
\* the second separator (a user id holds no separator)
KeyUser(k) ==
    LET n == CHOOSE m \in 0..(Len(k) - 3) :
                 k[3 + m] = ":" /\ \A j \in 0..(m - 1) : k[3 + j] # ":"
    IN  SubSeq(k, 3, 2 + n)

\* Redis MATCH: "*" stands for any run of characters
RECURSIVE GlobMatch(_, _)
GlobMatch(pat, s) ==
    IF pat = <<>> THEN s = <<>>
    ELSE IF Head(pat) = "*"
         THEN \E i \in 0..Len(s) : GlobMatch(Tail(pat), SubSeq(s, i + 1, Len(s)))
         ELSE s # <<>> /\ Head(s) = Head(pat) /\ GlobMatch(Tail(pat), Tail(s))

-----------------------------------------------------------------------------
(* Cursor codec: base64 of JSON {"added_at": <ISO-8601>, "id": <_id>} *)

\* a date format that drops the low digit of the instant
ISOTruncated(t) == <<"T">> \o Str(t \div 10)

\* Date.prototype.toISOString of the instant t
ISO(t) == <<"T">> \o Str(t)

\* new Date(s).getTime(); -1 stands for NaN
DateParse(s) ==
    IF Len(s) >= 2 /\ s[1] = "T" /\ AllDigits(Tail(s)) THEN ParseNat(Tail(s)) ELSE -1

\* String(_id) of an ObjectId
IdStr(i) == Str(i)

\* mongoose cast of a string to ObjectId; -1 stands for a CastError
CastId(s) == IF AllDigits(s) THEN ParseNat(s) ELSE -1

JsonAlphabet == {"{", "}", "added_at", "id", "wrong", "T", "x"}
                    \cup {Digits[i] : i \in 1..10}

\* Buffer.toString('base64'), token by token
B64(c) ==
    CASE c = "{" -> "ew" [] c = "}" -> "fQ" [] c = "added_at" -> "YWRk"
      [] c = "id" -> "aWQ" [] c = "wrong" -> "d3Jv" [] c = "T" -> "VA"
      [] c = "x" -> "eA"
      [] c = "0" -> "MA" [] c = "1" -> "MQ" [] c = "2" -> "Mg" [] c = "3" -> "Mw"
      [] c = "4" -> "NA" [] c = "5" -> "NQ" [] c = "6" -> "Ng" [] c = "7" -> "Nw"
      [] c = "8" -> "OA" [] c = "9" -> "OQ"

\* Buffer.from(s, 'base64'): never throws; what is no encoding of JSON text
\* comes out as bytes ("?") that JSON.parse rejects
UnB64(c) == IF \E j \in JsonAlphabet : B64(j) = c
            THEN CHOOSE j \in JsonAlphabet : B64(j) = c
            ELSE "?"

Base64Encode(s) == [i \in 1..Len(s) |-> B64(s[i])]

Base64Decode(s) == [i \in 1..Len(s) |-> UnB64(s[i])]

JsonStringifyCursor(addedAt, id) ==
    <<"{", "added_at">> \o ISO(addedAt) \o <<"id">> \o IdStr(id) \o <<"}">>

IsKey(c) == c \in {"added_at", "id", "wrong"}

IsValTok(c) == c = "T" \/ c = "x" \/ IsDigit(c)

\* length of the longest run of value tokens at the head of toks
RECURSIVE ValLen(_)
ValLen(toks) == IF toks # <<>> /\ IsValTok(Head(toks)) THEN 1 + ValLen(Tail(toks)) ELSE 0

RECURSIVE ParseFields(_, _)
ParseFields(toks, acc) ==
    IF toks = <<>> THEN acc
    ELSE IF ~IsKey(Head(toks)) THEN [acc EXCEPT !.ok = FALSE]
    ELSE LET n    == ValLen(Tail(toks))
             val  == SubSeq(toks, 2, n + 1)
             rest == SubSeq(toks, n + 2, Len(toks))
             k    == Head(toks)
         IN  ParseFields(rest,
                 IF k = "added_at" THEN [acc EXCEPT !.added_at = val]
                 ELSE IF k = "id" THEN [acc EXCEPT !.id = val]
                 ELSE acc)

\* JSON.parse of the decoded text; ok = FALSE stands for a SyntaxError
JsonParse(s) ==
    IF Len(s) >= 2 /\ s[1] = "{" /\ s[Len(s)] = "}"
    THEN ParseFields(SubSeq(s, 2, Len(s) - 1), [ok |-> TRUE, added_at |-> <<>>, id |-> <<>>])
    ELSE [ok |-> FALSE, added_at |-> <<>>, id |-> <<>>]

\* my-list-service.ts 244-258: ok = FALSE is BadRequest("Invalid cursor format")
DecodeCursor(cursor) ==
    LET decodedCursor == JsonParse(Base64Decode(cursor))
        cursorDate == IF decodedCursor.ok /\ decodedCursor.added_at # <<>>
                      THEN DateParse(decodedCursor.added_at) ELSE -1
    IN  [ok |-> cursorDate # -1, date |-> cursorDate, id |-> decodedCursor.id]

EncodeCursor(addedAt, id) == Base64Encode(JsonStringifyCursor(addedAt, id))


-----------------------------------------------------------------------------
(* The my-list collection and its queries *)

EntriesOf(s, userId) == {e \in s : e.user = userId}

\* a findOne / deleteOne filter on content_id alone
FindOneByContent(s, userId, contentId) == {e \in s : e.content = contentId}

\* findOne({user_id, content_id})
FindOne(s, userId, contentId) == {e \in s : e.user = userId /\ e.content = contentId}

\* unique index {user_id: 1, content_id: 1}: an insert of a second document
\* for the pair is refused with duplicate-key error 11000
\* a collection without the unique index
NoUniqueIndex(s, userId, contentId) == FALSE

DuplicateKey(s, userId, contentId) == FindOne(s, userId, contentId) # {}

\* canonical order: added_at descending, then _id descending
Before(e, f) == e.addedAt > f.addedAt \/ (e.addedAt = f.addedAt /\ e.id > f.id)

\* sort({added_at: -1, _id: -1})
RECURSIVE SortCanon(_)
SortCanon(S) ==
    IF S = {} THEN <<>>
    ELSE LET first == CHOOSE e \in S : \A f \in S \ {e} : Before(e, f)
         IN  <<first>> \o SortCanon(S \ {first})

\* sort({added_at: -1}): every order the server may return; documents with
\* equal added_at come in no guaranteed order
RECURSIVE SortAddedAt(_)
SortAddedAt(S) ==
    IF S = {} THEN {<<>>}
    ELSE UNION {{<<e>> \o t : t \in SortAddedAt(S \ {e})} :
                   e \in {x \in S : \A f \in S : x.addedAt >= f.addedAt}}

\* skip(skip).limit(limit) on a sorted result
Slice(sorted, skip, limit) == SubSeq(sorted, skip + 1, Min(skip + limit, Len(sorted)))

CountDocuments(s, userId) == Cardinality(EntriesOf(s, userId))

\* find({user_id}).sort({added_at: -1}).skip(skip).limit(limit): possible results
FindOffset(s, userId, skip, limit) ==
    {Slice(sorted, skip, limit) : sorted \in SortAddedAt(EntriesOf(s, userId))}

\* the query of a cursor without the _id tie-break
CursorQueryByDate(e, userId, hasCursor, dc) ==
    /\ e.user = userId
    /\ hasCursor => e.addedAt < dc.date

\* a query whose fallback for a cursor without id takes $lte in place of $lt
CursorQueryInclusive(e, userId, hasCursor, dc) ==
    /\ e.user = userId
    /\ hasCursor =>
          IF dc.id # <<>>
          THEN \/ e.addedAt < dc.date
               \/ e.addedAt = dc.date /\ e.id < CastId(dc.id)
          ELSE e.addedAt <= dc.date

\* the query document built at my-list-service.ts 266-282, as a predicate;
\* dc is the decoded cursor, hasCursor says that one was given
CursorQuery(e, userId, hasCursor, dc) ==
    /\ e.user = userId
    /\ hasCursor =>
          IF dc.id # <<>>
          THEN \/ e.addedAt < dc.date
               \/ e.addedAt = dc.date /\ e.id < CastId(dc.id)
          ELSE e.addedAt < dc.date

\* a find that fetches limit documents, without the extra one
FindCursorExact(s, userId, hasCursor, dc, limit) ==
    Take(SortCanon({e \in s : CursorQuery(e, userId, hasCursor, dc)}), limit)

\* find(query).sort({added_at: -1, _id: -1}).limit(limit + 1)
FindCursor(s, userId, hasCursor, dc, limit) ==
    Take(SortCanon({e \in s : CursorQuery(e, userId, hasCursor, dc)}), limit + 1)

-----------------------------------------------------------------------------
(* MyListService: pages *)

mapToListItemData(item) ==
    [id |-> IdStr(item.id), contentId |-> item.content,
     contentType |-> item.ctype, addedAt |-> item.addedAt]

MapItems(items) == [i \in 1..Len(items) |-> mapToListItemData(items[i])]

\* Math.floor in place of Math.ceil
Floor(a, b) == a \div b

\* Math.ceil(a / b)
Ceil(a, b) == (a + b - 1) \div b

\* getListWithOffsetPagination, given what its two store reads returned
OffsetPage(page, limit, totalItems, items) ==
    LET totalPages == Ceil(totalItems, limit)
    IN  [kind |-> "ok",
         items |-> MapItems(items),
         pagination |-> [type |-> "offset", page |-> page, limit |-> limit,
                         totalItems |-> totalItems, totalPages |-> totalPages,
                         hasNextPage |-> page < totalPages,
                         hasPrevPage |-> page > 1]]

ErrorPage(kind) == [kind |-> kind, items |-> <<>>, pagination |-> [type |-> "none"]]

\* a cursor page whose hasPrevPage is read off the store: true when an entry
\* of the user lies before the first item
CursorPageStorePrev(s, userId, cursor, limit) ==
    LET hasCursor == cursor # <<>>
        dc == IF hasCursor THEN DecodeCursor(cursor)
              ELSE [ok |-> TRUE, date |-> -1, id |-> <<>>]
    IN  IF ~dc.ok THEN ErrorPage("BadRequest")
        ELSE IF hasCursor /\ dc.id # <<>> /\ CastId(dc.id) = -1 THEN ErrorPage("CastError")
        ELSE
        LET items == FindCursor(s, userId, hasCursor, dc, limit)
            hasNextPage == Len(items) > limit
            resultItems == IF hasNextPage THEN SubSeq(items, 1, limit) ELSE items
            lastItem == resultItems[Len(resultItems)]
            hasPrev == \E e \in EntriesOf(s, userId) :
                          resultItems = <<>> \/ Before(e, resultItems[1])
        IN  [kind |-> "ok",
             items |-> MapItems(resultItems),
             pagination |-> [type |-> "cursor", limit |-> limit,
                             nextCursor |-> IF hasNextPage /\ Len(resultItems) > 0
                                            THEN EncodeCursor(lastItem.addedAt, lastItem.id)
                                            ELSE <<>>,
                             prevCursor |-> IF hasPrev THEN cursor ELSE <<>>,
                             hasNextPage |-> hasNextPage,
                             hasPrevPage |-> hasPrev]]

\* getListWithCursorPagination: decode, query, page
getListWithCursorPagination(s, userId, cursor, limit) ==
    LET hasCursor == cursor # <<>>
        dc == IF hasCursor THEN DecodeCursor(cursor)
              ELSE [ok |-> TRUE, date |-> -1, id |-> <<>>]
    IN  IF ~dc.ok THEN ErrorPage("BadRequest")
        ELSE IF hasCursor /\ dc.id # <<>> /\ CastId(dc.id) = -1 THEN ErrorPage("CastError")
        ELSE
        LET items == FindCursor(s, userId, hasCursor, dc, limit)
            hasNextPage == Len(items) > limit
            resultItems == IF hasNextPage THEN SubSeq(items, 1, limit) ELSE items
            lastItem == resultItems[Len(resultItems)]
            nextCursor == IF hasNextPage /\ Len(resultItems) > 0
                          THEN EncodeCursor(lastItem.addedAt, lastItem.id)
                          ELSE <<>>
        IN  [kind |-> "ok",
             items |-> MapItems(resultItems),
             pagination |-> [type |-> "cursor", limit |-> limit,
                             nextCursor |-> nextCursor, prevCursor |-> cursor,
                             hasNextPage |-> hasNextPage,
                             hasPrevPage |-> hasCursor]]

\* JSON.stringify of a page: a Date becomes its ISO string
JsonItem(item) == [item EXCEPT !.addedAt = ISO(@)]

JsonPage(page) ==
    [page EXCEPT !.items = [i \in 1..Len(page.items) |-> JsonItem(page.items[i])]]


-----------------------------------------------------------------------------
(* Requests *)

\* x-user-id values, as auth.ts admits them: [a-zA-Z0-9_-]{1,50}
Users == {<<"u">>, <<"u", "1">>}

Procs == {1, 2, 3}

\* the content catalog: Movie and TVShow collections
Movies == {"m1"}
Shows == {"s1"}

AddInputs == {[content |-> "m1", ctype |-> "movie"],
              [content |-> "s1", ctype |-> "tvshow"],
              [content |-> "s1", ctype |-> "movie"]}

RemoveInputs == {"m1", "s1"}

\* GET /api/my-list queries; cursors a client holds are the literal "first"
\* and the nextCursor values the service can have handed out
ListInputs(s, userId) ==
    {[type |-> "offset", page |-> 1, limit |-> 1, cursor |-> <<>>],
     [type |-> "offset", page |-> 2, limit |-> 1, cursor |-> <<>>],
     [type |-> "cursor", page |-> 1, limit |-> 1, cursor |-> <<>>],
     [type |-> "cursor", page |-> 1, limit |-> 1, cursor |-> <<"first">>]}
    \cup {[type |-> "cursor", page |-> 1, limit |-> 1,
           cursor |-> EncodeCursor(e.addedAt, e.id)] : e \in EntriesOf(s, userId)}

NoReq == [op |-> "none", user |-> <<>>, content |-> "", ctype |-> "",
          type |-> "", page |-> 0, limit |-> 0, cursor |-> <<>>]

NoPage == ErrorPage("none")

NoLoc == [ack0 |-> 0, wver |-> 0, rver |-> 0, total |-> -1, found |-> FALSE,
          items |-> <<>>, result |-> NoPage, cursor |-> 0, keysToDelete |-> {},
          sweep |-> "none", overlap |-> 0]

NoRes == [status |-> 0, error |-> "", cause |-> "", data |-> <<>>,
          pagination |-> [type |-> "none"], xcache |-> "", ver |-> 0]

\* cause is the name of the error thrown
Response(status, error, cause) ==
    [NoRes EXCEPT !.status = status, !.error = error, !.cause = cause]

\* controller + errorHandler: what a thrown error becomes
ConflictResponse == Response(409, "Item already exists in list", "ConflictError")
DuplicateKeyResponse == Response(409, "Item already exists in list", "MongoServerError")
MovieNotFound == Response(404, "Movie not found", "NotFoundError")
TVShowNotFound == Response(404, "TV Show not found", "NotFoundError")
\* a delete that reports success when nothing matched
RemovedNothing == [NoRes EXCEPT !.status = 200]

ItemNotInList == Response(404, "Item not in list", "NotFoundError")
InvalidCursor == Response(400, "Invalid cursor format", "BadRequestError")
InvalidId == Response(400, "Invalid ID format", "CastError")

Max(a, b) == IF a > b THEN a ELSE b

InFlight(p) == pc[p] \notin {"idle", "done"}

CanStart(p, userId) ==
    /\ ~InFlight(p)
    /\ started < budget
    /\ \A q \in Procs : q < p => InFlight(q)
    /\ serial => \A q \in Procs : InFlight(q) => req[q].user # userId

\* the adds and removes of the user that other slots are serving
MutationsInFlight(p, userId) ==
    {q \in Procs \ {p} : InFlight(q) /\ req[q].op \in {"add", "remove"}
                            /\ req[q].user = userId}

\* a request arrives at slot p; overlap counts, for a list call, the mutations
\* of the same user in flight at any time during the call
Begin(p, r, at) ==
    /\ req' = [req EXCEPT ![p] = r]
    /\ loc' = [q \in Procs |->
                  IF q = p
                  THEN [NoLoc EXCEPT !.ack0 = acked[r.user],
                                     !.overlap = IF r.op = "list"
                                                  THEN Cardinality(MutationsInFlight(p, r.user))
                                                  ELSE 0]
                  ELSE IF InFlight(q) /\ req[q].op = "list" /\ req[q].user = r.user
                          /\ r.op # "list"
                  THEN [loc[q] EXCEPT !.overlap = @ + 1]
                  ELSE loc[q]]
    /\ res' = [res EXCEPT ![p] = NoRes]
    /\ pc' = [pc EXCEPT ![p] = at]
    /\ started' = started + 1
    /\ UNCHANGED <<store, nextId, clock, ver, acked, cache, cacheUp, outage, hist,
                   serial, budget, walk, keyq, codec, pageq, http, catalog, hits>>

\* POST /api/my-list
StartAdd(p) ==
    \E userId \in Users, a \in AddInputs :
        /\ CanStart(p, userId)
        /\ Begin(p, [NoReq EXCEPT !.op = "add", !.user = userId,
                                   !.content = a.content, !.ctype = a.ctype],
                 "add_check")

\* DELETE /api/my-list/:contentId
StartRemove(p) ==
    \E userId \in Users, c \in RemoveInputs :
        /\ CanStart(p, userId)
        /\ Begin(p, [NoReq EXCEPT !.op = "remove", !.user = userId, !.content = c],
                 "rem_delete")

\* GET /api/my-list
StartList(p) ==
    \E userId \in Users :
        \E q \in ListInputs(store, userId) :
            /\ CanStart(p, userId)
            /\ Begin(p, [NoReq EXCEPT !.op = "list", !.user = userId, !.type = q.type,
                                       !.page = q.page, !.limit = q.limit,
                                       !.cursor = q.cursor],
                     "list_get")


-----------------------------------------------------------------------------
(* Handlers: common parts *)

\* the locals a handler leaves behind: history only
Returned(l) == [NoLoc EXCEPT !.ack0 = l.ack0, !.wver = l.wver, !.sweep = l.sweep]

\* the handler of slot p ends with response r; nothing else changes
Finish(p, r) ==
    /\ pc' = [pc EXCEPT ![p] = "done"]
    /\ res' = [res EXCEPT ![p] = r]
    /\ loc' = [loc EXCEPT ![p] = Returned(@)]
    /\ UNCHANGED <<store, nextId, clock, ver, acked, cache, cacheUp, outage, hist,
                   req, started, serial, budget, walk, keyq, codec, pageq, http, catalog, hits>>

Goto(p, at) ==
    /\ pc' = [pc EXCEPT ![p] = at]
    /\ UNCHANGED <<store, nextId, clock, ver, acked, cache, cacheUp, outage, hist,
                   req, loc, res, started, serial, budget, walk, keyq, codec, pageq, http,
                       catalog, hits>>

\* history of responses per key, kept while users issue requests one at a time
NoHist == [reads |-> <<>>, swept |-> {}, owned |-> {},
           last |-> [op |-> "none", content |-> ""], expired |-> {}]

Forget(userId) ==
    IF serial THEN [hist EXCEPT ![userId].reads = <<>>, ![userId].expired = {}] ELSE hist

Remember(userId, key, r) ==
    IF serial /\ r.status = 200
    THEN [hist EXCEPT ![userId].reads =
             (key :> [data |-> r.data, pagination |-> r.pagination, xcache |-> r.xcache]) @@ @]
    ELSE hist

\* the history after a write of request r that created items
Written(r, items) ==
    [Forget(r.user) EXCEPT
        ![r.user].owned = @ \cup {IdStr(items[i].id) : i \in 1..Len(items)},
        ![r.user].last = IF serial THEN [op |-> r.op, content |-> r.content] ELSE @]

Swept(userId, keys) == [hist EXCEPT ![userId].swept = @ \cup keys]

Without(f, keys) == [k \in (DOMAIN f) \ keys |-> f[k]]

\* the slot of Redis' keyspace a SCAN call visits holds this key
Bucket(key) == Len(key) % ScanBuckets

\* a handler that starts the sweep and returns without awaiting it
FireAndForgetSweep == FALSE

\* my-list-service.ts 124, 154: the sweep is awaited before the handler returns
AwaitSweep == TRUE

\* 201 with the created item / 200
MutationResponse(p, newItem) ==
    IF req[p].op = "add"
    THEN [NoRes EXCEPT !.status = 201, !.data = <<JsonItem(mapToListItemData(newItem))>>]
    ELSE [NoRes EXCEPT !.status = 200]

-----------------------------------------------------------------------------
(* MyListService.addToList *)

\* an add that goes on to the content lookup without the findOne check
AddCheckUnguarded(p) ==
    /\ pc[p] = "add_check"
    /\ Goto(p, "add_lookup")

\* findOne: Conflict if the pair is already in the list
AddCheck(p) ==
    /\ pc[p] = "add_check"
    /\ IF FindOne(store, req[p].user, req[p].content) # {}
       THEN Finish(p, ConflictResponse)
       ELSE Goto(p, "add_lookup")

\* an add that creates the entry without looking the content up
AddLookupUnchecked(p) ==
    /\ pc[p] = "add_lookup"
    /\ Goto(p, "add_create")

\* Movie.findById / TVShow.findById
AddLookup(p) ==
    /\ pc[p] = "add_lookup"
    /\ IF req[p].ctype = "movie"
       THEN IF req[p].content \in Movies THEN Goto(p, "add_create")
            ELSE Finish(p, MovieNotFound)
       ELSE IF req[p].content \in Shows THEN Goto(p, "add_create")
            ELSE Finish(p, TVShowNotFound)

\* a store write of slot p that produced version v: go on to the sweep
AfterWrite(p, v, items) ==
    /\ pc' = [pc EXCEPT ![p] = "inv_scan"]
    /\ loc' = [loc EXCEPT ![p].wver = v, ![p].items = items]
    /\ ver' = [ver EXCEPT ![req[p].user] = v]
    /\ hist' = Written(req[p], items)
    /\ IF AwaitSweep
       THEN UNCHANGED <<res, acked>>
       ELSE /\ res' = [res EXCEPT ![p] =
                          MutationResponse(p, IF items = <<>> THEN 0 ELSE items[1])]
            /\ acked' = [acked EXCEPT ![req[p].user] = Max(@, v)]

\* MyListItem.create with added_at = new Date()
AddCreate(p) ==
    /\ pc[p] = "add_create"
    /\ IF DuplicateKey(store, req[p].user, req[p].content)
       THEN Finish(p, DuplicateKeyResponse)
       ELSE \E t \in {clock, Min(clock + 1, MaxClock)} :
              LET newItem == [id |-> nextId, user |-> req[p].user,
                              content |-> req[p].content, ctype |-> req[p].ctype,
                              addedAt |-> t]
              IN  /\ store' = store \cup {newItem}
                  /\ nextId' = nextId + 1
                  /\ clock' = t
                  /\ AfterWrite(p, ver[req[p].user] + 1, <<newItem>>)
                  /\ UNCHANGED <<cache, cacheUp, outage, req, started, serial, budget, walk,
                                 keyq, codec, pageq, http, catalog, hits>>

-----------------------------------------------------------------------------
(* MyListService.removeFromList *)

RemDelete(p) ==
    /\ pc[p] = "rem_delete"
    /\ LET hit == FindOne(store, req[p].user, req[p].content)
       IN  IF hit = {}
           THEN Finish(p, ItemNotInList)
           ELSE /\ store' = store \ hit
                /\ AfterWrite(p, ver[req[p].user] + 1, <<>>)
                /\ UNCHANGED <<nextId, clock, cache, cacheUp, outage, req, started,
                               serial, budget, walk, keyq, codec, pageq, http, catalog, hits>>

-----------------------------------------------------------------------------
(* CacheService.invalidateUserCache *)

\* an end of the sweep that passes a Redis failure on to the caller
SweepEndRaising(p, how, newCache) ==
    /\ pc' = [pc EXCEPT ![p] = "done"]
    /\ hist' = Swept(req[p].user, (DOMAIN cache) \ (DOMAIN newCache))
    /\ loc' = [loc EXCEPT ![p] = Returned([@ EXCEPT !.sweep = how])]
    /\ cache' = newCache
    /\ IF how = "failed"
       THEN /\ res' = [res EXCEPT ![p] = [NoRes EXCEPT !.status = 500]]
            /\ UNCHANGED acked
       ELSE /\ res' = [res EXCEPT ![p] =
                          MutationResponse(p, IF loc[p].items = <<>> THEN 0
                                              ELSE loc[p].items[1])]
            /\ acked' = [acked EXCEPT ![req[p].user] = Max(@, loc[p].wver)]
    /\ UNCHANGED <<store, nextId, clock, ver, cacheUp, outage, req, started,
                   serial, budget, walk, keyq, codec, pageq, http, catalog, hits>>

\* the sweep of slot p is over (how: "swept" or "failed"); the handler returns
SweepEnd(p, how, newCache) ==
    /\ pc' = [pc EXCEPT ![p] = "done"]
    /\ hist' = Swept(req[p].user, (DOMAIN cache) \ (DOMAIN newCache))
    /\ loc' = [loc EXCEPT ![p] = Returned([@ EXCEPT !.sweep = how])]
    /\ cache' = newCache
    /\ IF AwaitSweep
       THEN /\ res' = [res EXCEPT ![p] =
                          MutationResponse(p, IF loc[p].items = <<>> THEN 0
                                              ELSE loc[p].items[1])]
            /\ acked' = [acked EXCEPT ![req[p].user] = Max(@, loc[p].wver)]
       ELSE UNCHANGED <<res, acked>>
    /\ UNCHANGED <<store, nextId, clock, ver, cacheUp, outage, req, started,
                   serial, budget, walk, keyq, codec, pageq, http, catalog, hits>>

\* one redis.scan(cursor, 'MATCH', pattern, 'COUNT', 100) of the do-while loop
InvScan(p) ==
    /\ pc[p] = "inv_scan"
    /\ IF ~cacheUp
       THEN SweepEnd(p, "failed", cache)
       ELSE LET pattern == getUserCachePattern(req[p].user)
                result == {k \in DOMAIN cache :
                              Bucket(k) = loc[p].cursor /\ GlobMatch(pattern, k)}
                keys == loc[p].keysToDelete \cup result
                cursor == (loc[p].cursor + 1) % ScanBuckets
            IN  IF cursor # 0
                THEN /\ loc' = [loc EXCEPT ![p].cursor = cursor, ![p].keysToDelete = keys]
                     /\ UNCHANGED <<store, nextId, clock, ver, acked, cache, cacheUp, outage,
                                    hist, pc, req, res, started, serial, budget, walk, keyq,
                                        codec, pageq, http, catalog, hits>>
                ELSE IF keys # {}
                THEN /\ loc' = [loc EXCEPT ![p].cursor = cursor, ![p].keysToDelete = keys]
                     /\ pc' = [pc EXCEPT ![p] = "inv_del"]
                     /\ UNCHANGED <<store, nextId, clock, ver, acked, cache, cacheUp, outage,
                                    hist, req, res, started, serial, budget, walk, keyq, codec,
                                        pageq, http, catalog, hits>>
                ELSE SweepEnd(p, "swept", cache)

\* redis.del(...keysToDelete)
InvDel(p) ==
    /\ pc[p] = "inv_del"
    /\ IF ~cacheUp
       THEN SweepEnd(p, "failed", cache)
       ELSE SweepEnd(p, "swept", Without(cache, loc[p].keysToDelete))


-----------------------------------------------------------------------------
(* MyListService.getList *)

\* params.limit || 10
LimitOf(r) == IF r.limit = 0 THEN 10 ELSE r.limit

KeyOf(r) == getCacheKey(r.user, r.type, r.page, r.cursor, LimitOf(r))

\* 200 with the page and the X-Cache header
ListResponse(page, xcache, v) ==
    [NoRes EXCEPT !.status = 200, !.data = page.items, !.pagination = page.pagination,
                  !.xcache = xcache, !.ver = v]

ListDone(p, r, newCache) ==
    /\ pc' = [pc EXCEPT ![p] = "done"]
    /\ res' = [res EXCEPT ![p] = r]
    /\ cache' = newCache
    /\ hist' = Remember(req[p].user, KeyOf(req[p]), r)
    /\ loc' = [loc EXCEPT ![p] = Returned(@)]
    /\ UNCHANGED <<store, nextId, clock, ver, acked, cacheUp, outage, req, started,
                   serial, budget, walk, keyq, codec, pageq, http, catalog, hits>>

\* CacheService.get, then on a miss the synchronous head of the page function
ListGet(p) ==
    /\ pc[p] = "list_get"
    /\ LET key == KeyOf(req[p])
       IN  IF cacheUp /\ key \in DOMAIN cache
           THEN ListDone(p, ListResponse(cache[key].data, "HIT", cache[key].ver), cache)
           ELSE IF req[p].type = "offset" THEN Goto(p, "list_query")
           ELSE IF req[p].cursor # <<>> /\ ~DecodeCursor(req[p].cursor).ok
                THEN Finish(p, InvalidCursor)
                ELSE Goto(p, "list_cursor")

\* both reads of Promise.all are in: build the page
OffsetJoin(p, total, items, v) ==
    /\ loc' = [loc EXCEPT ![p].total = total, ![p].items = items, ![p].found = TRUE,
                          ![p].rver = v,
                          ![p].result = OffsetPage(IF req[p].page = 0 THEN 1 ELSE req[p].page,
                                                   LimitOf(req[p]), total, items)]
    /\ pc' = [pc EXCEPT ![p] = "list_set"]

\* MyListItem.countDocuments({user_id})
ListCount(p) ==
    /\ pc[p] = "list_query"
    /\ loc[p].total = -1
    /\ LET total == CountDocuments(store, req[p].user)
       IN  IF loc[p].found
           THEN OffsetJoin(p, total, loc[p].items, loc[p].rver)
           ELSE /\ loc' = [loc EXCEPT ![p].total = total, ![p].rver = ver[req[p].user]]
                /\ UNCHANGED pc
    /\ UNCHANGED <<store, nextId, clock, ver, acked, cache, cacheUp, outage, hist,
                   req, res, started, serial, budget, walk, keyq, codec, pageq, http, catalog,
                       hits>>

\* MyListItem.find({user_id}).sort({added_at: -1}).skip(skip).limit(limit)
ListFind(p) ==
    /\ pc[p] = "list_query"
    /\ ~loc[p].found
    /\ LET page == IF req[p].page = 0 THEN 1 ELSE req[p].page
           limit == LimitOf(req[p])
       IN  \E items \in FindOffset(store, req[p].user, (page - 1) * limit, limit) :
              IF loc[p].total # -1
              THEN OffsetJoin(p, loc[p].total, items, loc[p].rver)
              ELSE /\ loc' = [loc EXCEPT ![p].items = items, ![p].found = TRUE,
                                         ![p].rver = ver[req[p].user]]
                   /\ UNCHANGED pc
    /\ UNCHANGED <<store, nextId, clock, ver, acked, cache, cacheUp, outage, hist,
                   req, res, started, serial, budget, walk, keyq, codec, pageq, http, catalog,
                       hits>>

\* the find of getListWithCursorPagination
ListCursor(p) ==
    /\ pc[p] = "list_cursor"
    /\ LET page == getListWithCursorPagination(store, req[p].user, req[p].cursor,
                                               LimitOf(req[p]))
       IN  IF page.kind = "ok"
           THEN /\ loc' = [loc EXCEPT ![p].result = page, ![p].rver = ver[req[p].user]]
                /\ pc' = [pc EXCEPT ![p] = "list_set"]
                /\ UNCHANGED <<store, nextId, clock, ver, acked, cache, cacheUp, outage, hist,
                               req, res, started, serial, budget, walk, keyq, codec, pageq,
                                   http, catalog, hits>>
           ELSE Finish(p, InvalidId)

\* a setex that stores nothing
SetDropped(c, key, entry) == c

\* a redis.set without expiry in place of setex
SetWithoutTtl(c, key, entry) == (key :> ([ttl |-> 0] @@ entry)) @@ c

\* a set that leaves its key alone in Redis
SetAlone(c, key, entry) == key :> ([ttl |-> CACHE_TTL_SECONDS] @@ entry)

\* redis.setex(key, ttlSeconds, JSON.stringify(data)); ttl 0 stands for a key
\* without expiry
CacheServiceSet(c, key, entry) == (key :> ([ttl |-> CACHE_TTL_SECONDS] @@ entry)) @@ c

\* a getList whose cache write is not guarded: a Redis error becomes a 500
ListSetThrowing(p) ==
    /\ pc[p] = "list_set"
    /\ IF cacheUp
       THEN ListDone(p, ListResponse(JsonPage(loc[p].result), "MISS", loc[p].rver),
                     CacheServiceSet(cache, KeyOf(req[p]),
                                     [data |-> JsonPage(loc[p].result), ver |-> loc[p].rver]))
       ELSE Finish(p, Response(500, "Internal server error", "Error"))

\* CacheService.set (setex with the TTL), then the response
ListSet(p) ==
    /\ pc[p] = "list_set"
    /\ LET data == JsonPage(loc[p].result)
           key == KeyOf(req[p])
       IN  ListDone(p, ListResponse(data, "MISS", loc[p].rver),
                    IF cacheUp
                    THEN CacheServiceSet(cache, key, [data |-> data, ver |-> loc[p].rver])
                    ELSE cache)

-----------------------------------------------------------------------------
(* Redis *)

\* the TTL of a key runs out; expired keeps, while users issue requests one at
\* a time, the keys of a user that ran out since the user's last mutation
Expire ==
    \E key \in DOMAIN cache :
        /\ cache[key].ttl > 0
        /\ cache' = Without(cache, {key})
        /\ hist' = [u \in Users |->
                       [hist[u] EXCEPT !.reads = Without(@, {key}),
                                       !.expired = IF serial /\ KeyUser(key) = u
                                                   THEN @ \cup {key} ELSE @]]
        /\ UNCHANGED <<store, nextId, clock, ver, acked, cacheUp, outage, pc, req, loc, res,
                       started, serial, budget, walk, keyq, codec, pageq, http, catalog, hits>>

CacheFail ==
    /\ cacheUp
    /\ cacheUp' = FALSE
    /\ outage' = TRUE
    /\ UNCHANGED <<store, nextId, clock, ver, acked, cache, hist, pc, req, loc,
                   res, started, serial, budget, walk, keyq, codec, pageq, http, catalog, hits>>

CacheRecover ==
    /\ ~cacheUp
    /\ cacheUp' = TRUE
    /\ UNCHANGED <<store, nextId, clock, ver, acked, cache, outage, hist, pc, req, loc,
                   res, started, serial, budget, walk, keyq, codec, pageq, http, catalog, hits>>

-----------------------------------------------------------------------------
(* The service under concurrent requests *)

NoWalk == [mode |-> "none"]
NoKeyq == [phase |-> "none"]
NoCodec == [phase |-> "none"]
NoPageq == [phase |-> "none"]
NoHttp == [phase |-> "none"]
NoCatalog == [phase |-> "none"]
NoHits == <<>>

Init ==
    /\ store = {}
    /\ nextId = 1
    /\ clock = 1
    /\ ver = [u \in Users |-> 0]
    /\ acked = [u \in Users |-> 0]
    /\ cache = <<>>
    /\ cacheUp = TRUE
    /\ outage = FALSE
    /\ hist = [u \in Users |-> NoHist]
    /\ pc = [p \in Procs |-> "idle"]
    /\ req = [p \in Procs |-> NoReq]
    /\ loc = [p \in Procs |-> NoLoc]
    /\ res = [p \in Procs |-> NoRes]
    /\ started = 0
    /\ hits = NoHits
    /\ catalog = NoCatalog
    /\ http = NoHttp
    /\ serial = FALSE
    /\ budget = MaxRequests
    /\ walk = NoWalk
    /\ keyq = NoKeyq
    /\ codec = NoCodec
    /\ pageq = NoPageq

MutationStep(p) ==
    \/ StartAdd(p) \/ StartRemove(p)
    \/ AddCheck(p) \/ AddLookup(p) \/ AddCreate(p)
    \/ RemDelete(p)
    \/ InvScan(p) \/ InvDel(p)

ListStep(p) ==
    \/ StartList(p)
    \/ ListGet(p) \/ ListCount(p) \/ ListFind(p) \/ ListCursor(p) \/ ListSet(p)

\* request slots of the full service
Workers == {1, 2}

Next ==
    \/ \E p \in Workers : MutationStep(p) \/ ListStep(p)
    \/ Expire \/ CacheFail \/ CacheRecover

Spec == Init /\ [][Next]_vars

-----------------------------------------------------------------------------
(* Concurrent addToList / removeFromList calls alone *)

MutInit ==
    /\ store = {}
    /\ nextId = 1
    /\ clock = 1
    /\ ver = [u \in Users |-> 0]
    /\ acked = [u \in Users |-> 0]
    /\ cache = <<>>
    /\ cacheUp = TRUE
    /\ outage = FALSE
    /\ hist = [u \in Users |-> NoHist]
    /\ pc = [p \in Procs |-> "idle"]
    /\ req = [p \in Procs |-> NoReq]
    /\ loc = [p \in Procs |-> NoLoc]
    /\ res = [p \in Procs |-> NoRes]
    /\ started = 0
    /\ hits = NoHits
    /\ catalog = NoCatalog
    /\ http = NoHttp
    /\ serial = FALSE
    /\ budget = Cardinality(Procs)
    /\ walk = NoWalk
    /\ keyq = NoKeyq
    /\ codec = NoCodec
    /\ pageq = NoPageq

MutNext ==
    \E p \in Procs :
        \/ StartAdd(p) \/ StartRemove(p)
        \/ AddCheck(p) \/ AddLookup(p) \/ AddCreate(p)
        \/ RemDelete(p)
        \/ InvScan(p)

MutSpec == MutInit /\ [][MutNext]_vars

-----------------------------------------------------------------------------
(* Each user issues one request at a time; Redis stays available *)

SeqInit ==
    /\ store = {}
    /\ nextId = 1
    /\ clock = 1
    /\ ver = [u \in Users |-> 0]
    /\ acked = [u \in Users |-> 0]
    /\ cache = <<>>
    /\ cacheUp = TRUE
    /\ outage = FALSE
    /\ hist = [u \in Users |-> NoHist]
    /\ pc = [p \in Procs |-> "idle"]
    /\ req = [p \in Procs |-> NoReq]
    /\ loc = [p \in Procs |-> NoLoc]
    /\ res = [p \in Procs |-> NoRes]
    /\ started = 0
    /\ hits = NoHits
    /\ catalog = NoCatalog
    /\ http = NoHttp
    /\ serial = TRUE
    /\ budget = MaxSerialRequests
    /\ walk = NoWalk
    /\ keyq = NoKeyq
    /\ codec = NoCodec
    /\ pageq = NoPageq

SeqNext ==
    \/ \E p \in Workers : MutationStep(p) \/ ListStep(p)
    \/ Expire

SeqSpec == SeqInit /\ [][SeqNext]_vars

-----------------------------------------------------------------------------
(* Properties of concurrent mutations (MutSpec) *)

ContentExists(a) ==
    IF a.ctype = "movie" THEN a.content \in Movies ELSE a.content \in Shows

\* every request issued so far is still visible in its slot
NoReuse == started = Cardinality({p \in Procs : pc[p] # "idle"})

AddsOf(userId, a) ==
    {p \in Procs : /\ req[p].op = "add" /\ req[p].user = userId
                   /\ req[p].content = a.content /\ req[p].ctype = a.ctype}

Succeeded(R) == {p \in R : res[p].status = 201}

\* C1: when N >= 2 addToList calls for one (user, content) pair, whose content
\* exists and which was not in the list, have all returned and no remove for the
\* pair was issued, exactly one of them returned 201, every other one returned
\* 409 "Item already exists in list", and the store holds one entry for the pair.
C1_ExactlyOneAddSucceeds ==
    \A userId \in Users, a \in AddInputs :
        LET R == AddsOf(userId, a)
        IN  ( /\ ContentExists(a)
              /\ NoReuse
              /\ Cardinality(R) >= 2
              /\ \A p \in R : pc[p] = "done"
              /\ \A q \in Procs : ~(req[q].op = "remove" /\ req[q].user = userId
                                      /\ req[q].content = a.content) )
            => /\ Cardinality(Succeeded(R)) = 1
               /\ \A p \in R \ Succeeded(R) :
                      /\ res[p].status = 409
                      /\ res[p].error = "Item already exists in list"
               /\ Cardinality(FindOne(store, userId, a.content)) = 1

\* three adds of one pair have returned, one of them refused by the index
C1_Witness ==
    \E userId \in Users, a \in AddInputs :
        /\ AddsOf(userId, a) = Procs
        /\ NoReuse
        /\ \A p \in Procs : pc[p] = "done"
        /\ Cardinality(Succeeded(Procs)) = 1
        /\ \E p \in Procs : res[p].cause = "MongoServerError"
        /\ \E p \in Procs : res[p].cause = "ConflictError"

AtMostOneEntryPerPair ==
    \A userId \in Users, c \in RemoveInputs :
        Cardinality(FindOne(store, userId, c)) <= 1

\* a create that finds the pair present answers 409 and leaves the store alone
CreateOnPresentPairFails ==
    \A p \in Procs :
        ( /\ pc[p] = "add_create" /\ pc'[p] # "add_create"
          /\ FindOne(store, req[p].user, req[p].content) # {} )
        => /\ res'[p].status = 409
           /\ store' = store

\* C2: the store never holds two entries for one (user, content) pair, and a
\* create for a pair that is present fails without changing the existing entry.
C2_UniquePair ==
    [](AtMostOneEntryPerPair) /\ [][CreateOnPresentPairFails]_vars

\* a create was refused by the index and the pair's entry is the earlier one
C2_Witness ==
    \E p \in Procs :
        /\ pc[p] = "done" /\ res[p].cause = "MongoServerError"
        /\ \E e \in FindOne(store, req[p].user, req[p].content) :
              \E q \in Procs \ {p} :
                  /\ res[q].status = 201 /\ res[q].data[1].id = IdStr(e.id)
        /\ Cardinality(FindOne(store, req[p].user, req[p].content)) = 1

-----------------------------------------------------------------------------
(* Properties of the cache under concurrent requests (Spec) *)

\* the cache keys the sweep of a user matches
UserKeys(c, userId) == {k \in DOMAIN c : GlobMatch(getUserCachePattern(userId), k)}

IsMutation(r) == r.op \in {"add", "remove"}

\* C3: in the executions where Redis never fails, once a successful mutation of
\* a user's list is acknowledged, no cache entry of that user holds a page read
\* from the entry set as it was before that mutation, and no list call started
\* after the acknowledgement is answered from such a page.
C3_NoStaleEntryAfterAck ==
    ~outage =>
        /\ \A userId \in Users : \A k \in UserKeys(cache, userId) :
               cache[k].ver >= acked[userId]
        /\ \A p \in Procs :
               (req[p].op = "list" /\ res[p].xcache = "HIT") => res[p].ver >= loc[p].ack0

\* C9: when addToList responds, either it reports success, its entry was created
\* and no cache entry of the user read before the create is left, or it reports
\* a failure and created nothing.
C9_NoPartialSuccess ==
    [][\A p \in Procs :
          (req[p].op = "add" /\ res[p].status = 0 /\ res'[p].status # 0)
          => IF res'[p].status = 201
             THEN /\ loc'[p].wver > 0
                  /\ \A k \in UserKeys(cache', req[p].user) :
                         cache'[k].ver >= loc'[p].wver
             ELSE loc'[p].wver = 0]_vars

\* a mutation has responded with success only after its write and its sweep
WriteAndSweepBeforeResponse ==
    \A p \in Procs :
        (IsMutation(req[p]) /\ res[p].status \in {200, 201})
        => /\ pc[p] = "done"
           /\ loc[p].wver > 0 /\ ver[req[p].user] >= loc[p].wver
           /\ loc[p].sweep \in {"swept", "failed"}

\* the keys a completed sweep collected are gone when the response is sent
SweptKeysGoneAtResponse ==
    \A p \in Procs :
        ( /\ IsMutation(req[p]) /\ res[p].status = 0 /\ res'[p].status \in {200, 201}
          /\ loc'[p].sweep = "swept" )
        => (DOMAIN cache') \cap loc[p].keysToDelete = {}

\* C10: whenever addToList or removeFromList has returned success, its store
\* write is applied and its invalidation sweep has ended, and the keys the sweep
\* found are deleted by the time of the response; nothing is left to run later.
C10_SweepBeforeResponse ==
    [](WriteAndSweepBeforeResponse) /\ [][SweptKeysGoneAtResponse]_vars

\* the only mutation of a user has returned success after its sweep deleted a
\* cached page of that user
C10_Witness ==
    \E p \in Procs :
        /\ IsMutation(req[p]) /\ res[p].status \in {200, 201}
        /\ loc[p].sweep = "swept" /\ loc[p].wver = 1
        /\ ver[req[p].user] = 1
        /\ hist[req[p].user].swept # {}
        /\ UserKeys(cache, req[p].user) = {}

-----------------------------------------------------------------------------
(* Properties of one user's requests issued one at a time (SeqSpec) *)

\* the pages getList can build for request r from store s, as sent
PagesOf(s, r) ==
    LET limit == LimitOf(r)
        page == IF r.page = 0 THEN 1 ELSE r.page
    IN  IF r.type = "offset"
        THEN {JsonPage(OffsetPage(page, limit, CountDocuments(s, r.user), items)) :
                 items \in FindOffset(s, r.user, (page - 1) * limit, limit)}
        ELSE {JsonPage(getListWithCursorPagination(s, r.user, r.cursor, limit))}

\* slot p returns a page in this step
ListReturns(p) ==
    /\ req[p].op = "list" /\ pc[p] # "done" /\ pc'[p] = "done"
    /\ res'[p].status = 200

SentPage(r) == [kind |-> "ok", items |-> r.data, pagination |-> r.pagination]

\* C4: with a user's requests issued one at a time and Redis available, the
\* first list call on a key after a successful add or remove of that user is a
\* cache miss, and its items and pagination are those of the store that
\* includes the mutation.
C4_FirstReadAfterMutation ==
    [][\A p \in Procs :
          ( /\ ListReturns(p)
            /\ ver[req[p].user] > 0
            /\ KeyOf(req[p]) \notin DOMAIN hist[req[p].user].reads )
          => /\ res'[p].xcache = "MISS"
             /\ res'[p].ver = ver[req[p].user]
             /\ SentPage(res'[p]) \in PagesOf(store, req[p])]_vars

\* a page was cached under a key, a mutation swept it, and the next call on
\* the key missed and read the store after the mutation
C4_Witness ==
    \E p \in Procs :
        /\ req[p].op = "list" /\ pc[p] = "done" /\ res[p].xcache = "MISS"
        /\ res[p].ver = ver[req[p].user] /\ res[p].ver > 0
        /\ KeyOf(req[p]) \in hist[req[p].user].swept
        /\ KeyOf(req[p]) \in DOMAIN hist[req[p].user].reads
        /\ res[p].data # <<>>

\* C5 as stated, on calls that return a page: of two list calls on one key
\* with no mutation of the user's list and no expiry between them, the first
\* reported a miss, the second reports a hit and returns the first's items and
\* pagination.
C5_FirstMissSecondHit ==
    [][\A p \in Procs :
          (ListReturns(p) /\ KeyOf(req[p]) \in DOMAIN hist[req[p].user].reads)
          => LET first == hist[req[p].user].reads[KeyOf(req[p])]
             IN  /\ first.xcache = "MISS"
                 /\ res'[p].xcache = "HIT"
                 /\ res'[p].data = first.data
                 /\ res'[p].pagination = first.pagination]_vars

\* C5 amended: of two list calls on one key that return a page, with no
\* mutation of the user's list and no expiry between them, the second reports a
\* hit and returns the first's items and pagination; a call reports a miss
\* exactly when no call on its key returned a page since the last mutation of
\* the user's list or expiry of the key.
C5_SecondHitSamePage ==
    [][\A p \in Procs :
          ListReturns(p)
          => IF KeyOf(req[p]) \in DOMAIN hist[req[p].user].reads
             THEN LET first == hist[req[p].user].reads[KeyOf(req[p])]
                  IN  /\ res'[p].xcache = "HIT"
                      /\ res'[p].data = first.data
                      /\ res'[p].pagination = first.pagination
             ELSE res'[p].xcache = "MISS"]_vars

\* a second call on a key has returned a non-empty page from the cache
C5_Witness ==
    \E p \in Procs :
        /\ req[p].op = "list" /\ pc[p] = "done" /\ res[p].xcache = "HIT"
        /\ res[p].data # <<>>
        /\ KeyOf(req[p]) \in DOMAIN cache
        /\ cache[KeyOf(req[p])].data = SentPage(res[p])

-----------------------------------------------------------------------------
(* Page walks over a fixed store (WalkSpec) *)

WalkUser == <<"u">>
OtherUser == <<"u", "1">>

WalkContents == <<"m1", "s1", "m2", "s2", "m3", "s3">>

WalkEntry(i, userId, t) ==
    [id |-> i, user |-> userId, content |-> WalkContents[i], ctype |-> "movie",
     addedAt |-> t]

\* a client that walks the cursor pages and the offset pages of WalkUser's list
\* with one fixed limit
NewWalk(limit) ==
    [mode |-> "walk", limit |-> limit,
     cursor |-> <<>>, cpages |-> 0, cseen |-> <<>>, cdone |-> FALSE,
     chasNext |-> FALSE, cfailed |-> FALSE,
     page |-> 1, oseen |-> <<>>, odone |-> FALSE]

\* stores of up to MaxWalkEntries entries of WalkUser, equal added_at included,
\* with or without an entry of another user
WalkInit ==
    /\ \E f \in [1..MaxWalkEntries -> 0..MaxClock], other \in BOOLEAN :
          store = {WalkEntry(i, WalkUser, f[i]) : i \in {j \in 1..MaxWalkEntries : f[j] > 0}}
                  \cup (IF other THEN {WalkEntry(MaxWalkEntries + 1, OtherUser, MaxClock)}
                        ELSE {})
    /\ \E limit \in 1..MaxWalkLimit : walk = NewWalk(limit)
    /\ nextId = MaxWalkEntries + 2
    /\ clock = MaxClock
    /\ ver = [u \in Users |-> 0]
    /\ acked = [u \in Users |-> 0]
    /\ cache = <<>>
    /\ cacheUp = TRUE
    /\ outage = FALSE
    /\ hist = [u \in Users |-> NoHist]
    /\ pc = [p \in Procs |-> "idle"]
    /\ req = [p \in Procs |-> NoReq]
    /\ loc = [p \in Procs |-> NoLoc]
    /\ res = [p \in Procs |-> NoRes]
    /\ started = 0
    /\ hits = NoHits
    /\ catalog = NoCatalog
    /\ http = NoHttp
    /\ serial = TRUE
    /\ budget = 0
    /\ keyq = NoKeyq
    /\ codec = NoCodec
    /\ pageq = NoPageq

IdsOf(items) == [i \in 1..Len(items) |-> items[i].id]

\* GET ?type=cursor&limit=..&cursor=<the last nextCursor>
WalkCursorStep ==
    /\ walk.mode = "walk" /\ ~walk.cdone
    /\ walk.cpages <= Cardinality(EntriesOf(store, WalkUser))
    /\ LET page == getListWithCursorPagination(store, WalkUser, walk.cursor, walk.limit)
       IN  walk' = IF page.kind # "ok"
                   THEN [walk EXCEPT !.cdone = TRUE, !.cfailed = TRUE]
                   ELSE [walk EXCEPT !.cseen = @ \o IdsOf(page.items),
                                     !.cpages = @ + 1,
                                     !.cursor = page.pagination.nextCursor,
                                     !.chasNext = page.pagination.hasNextPage,
                                     !.cdone = (page.pagination.nextCursor = <<>>)]
    /\ UNCHANGED <<store, nextId, clock, ver, acked, cache, cacheUp, outage, hist, pc, req,
                   loc, res, started, serial, budget, keyq, codec, pageq, http, catalog, hits>>

\* GET ?type=offset&limit=..&page=<next page>, up to totalPages
WalkOffsetStep ==
    /\ walk.mode = "walk" /\ ~walk.odone
    /\ \E items \in FindOffset(store, WalkUser, (walk.page - 1) * walk.limit, walk.limit) :
          LET page == OffsetPage(walk.page, walk.limit,
                                 CountDocuments(store, WalkUser), items)
          IN  walk' = [walk EXCEPT !.oseen = @ \o IdsOf(page.items),
                                   !.page = @ + 1,
                                   !.odone = ~page.pagination.hasNextPage]
    /\ UNCHANGED <<store, nextId, clock, ver, acked, cache, cacheUp, outage, hist, pc, req,
                   loc, res, started, serial, budget, keyq, codec, pageq, http, catalog, hits>>

WalkNext == WalkCursorStep \/ WalkOffsetStep

WalkSpec == WalkInit /\ [][WalkNext]_vars

NoDuplicates(seq) == \A i, j \in 1..Len(seq) : seq[i] = seq[j] => i = j

Range(seq) == {seq[i] : i \in 1..Len(seq)}

WalkIds == {IdStr(e.id) : e \in EntriesOf(store, WalkUser)}

\* C7: with no mutation during the walk, the cursor walk from no cursor along
\* nextCursor never repeats an entry and returns only entries of the user; it
\* goes on until every entry was returned, and when nextCursor is null every
\* entry of the user has been returned once and hasNextPage is false.
C7_CursorWalkComplete ==
    walk.mode = "walk" =>
        /\ NoDuplicates(walk.cseen)
        /\ Range(walk.cseen) \subseteq WalkIds
        /\ ~walk.cfailed
        /\ ~walk.cdone => (walk.cpages = 0 \/ Len(walk.cseen) < Cardinality(WalkIds))
        /\ walk.cdone => /\ Range(walk.cseen) = WalkIds
                         /\ ~walk.chasNext
                         /\ walk.cursor = <<>>

\* a walk with limit 1 over three entries, two of them with one added_at, next
\* to an entry of another user, has ended
C7_Witness ==
    /\ walk.mode = "walk" /\ walk.cdone /\ walk.limit = 1
    /\ Len(walk.cseen) = 3 /\ walk.cpages = 3
    /\ \E e, f \in EntriesOf(store, WalkUser) : e # f /\ e.addedAt = f.addedAt
    /\ EntriesOf(store, OtherUser) # {}

\* C8: with no mutation in between, the offset pages 1..totalPages, taken
\* together, are the same sequence of entries as the pages of the cursor walk,
\* and that sequence is in (added_at descending, _id descending) order.
C8_OffsetCursorAgree ==
    (walk.mode = "walk" /\ walk.cdone /\ walk.odone) =>
        /\ walk.oseen = walk.cseen
        /\ walk.cseen = [i \in 1..Len(walk.cseen) |->
                            IdStr(SortCanon(EntriesOf(store, WalkUser))[i].id)]

-----------------------------------------------------------------------------
(* Cache keys of pairs of list requests (KeySpec) *)

\* cursor query values: absent, the literal "first", a cursor the service
\* hands out, and other strings a client can send
KeyCursors ==
    {<<>>, <<"first">>, EncodeCursor(1, 1), <<"x">>,
     <<"first", ":", "limit", ":", "1">>, <<"page", ":", "1">>}

KeyInputs ==
    {[NoReq EXCEPT !.op = "list", !.user = u, !.type = "offset", !.page = pg, !.limit = l] :
        u \in Users, pg \in {0, 1, 2, 11}, l \in {0, 1, 10, 11}}
    \cup
    {[NoReq EXCEPT !.op = "list", !.user = u, !.type = "cursor", !.cursor = c, !.limit = l] :
        u \in Users, c \in KeyCursors, l \in {0, 1, 10, 11}}

KeyInit ==
    /\ \E a \in KeyInputs, b \in KeyInputs : keyq = [phase |-> "asked", a |-> a, b |-> b]
    /\ store = {}
    /\ nextId = 1
    /\ clock = 1
    /\ ver = [u \in Users |-> 0]
    /\ acked = [u \in Users |-> 0]
    /\ cache = <<>>
    /\ cacheUp = TRUE
    /\ outage = FALSE
    /\ hist = [u \in Users |-> NoHist]
    /\ pc = [p \in Procs |-> "idle"]
    /\ req = [p \in Procs |-> NoReq]
    /\ loc = [p \in Procs |-> NoLoc]
    /\ res = [p \in Procs |-> NoRes]
    /\ started = 0
    /\ hits = NoHits
    /\ catalog = NoCatalog
    /\ http = NoHttp
    /\ serial = TRUE
    /\ budget = 0
    /\ walk = NoWalk
    /\ codec = NoCodec
    /\ pageq = NoPageq

\* getList derives the cache key of each of the two requests
KeyDerive ==
    /\ keyq.phase = "asked"
    /\ keyq' = [phase |-> "keyed", a |-> keyq.a, b |-> keyq.b,
                ka |-> KeyOf(keyq.a), kb |-> KeyOf(keyq.b)]
    /\ UNCHANGED <<store, nextId, clock, ver, acked, cache, cacheUp, outage, hist, pc, req,
                   loc, res, started, serial, budget, walk, codec, pageq, http, catalog, hits>>

KeyNext == KeyDerive

KeySpec == KeyInit /\ [][KeyNext]_vars

\* userId, mode and the parameters in effect: page and limit in offset mode,
\* cursor-or-absent and limit in cursor mode
EffectiveParams(r) ==
    IF r.type = "offset"
    THEN <<r.user, "offset", IF r.page = 0 THEN 1 ELSE r.page, LimitOf(r)>>
    ELSE <<r.user, "cursor", r.cursor, LimitOf(r)>>

\* C6: two list requests get the same cache key if and only if they have the
\* same userId, the same mode and the same effective parameters, an absent
\* cursor being different from every cursor string.
C6_KeyInjective ==
    keyq.phase = "keyed" =>
        ((keyq.ka = keyq.kb) <=> (EffectiveParams(keyq.a) = EffectiveParams(keyq.b)))

-----------------------------------------------------------------------------
(* Failed mutations (SeqSpec, Spec) *)

\* slot p runs its deleteOne in this step
RemoveMoves(p) == req[p].op = "remove" /\ pc[p] = "rem_delete" /\ pc'[p] # "rem_delete"

\* a remove that has returned either deleted its entry or changed nothing
RemoveOutcome ==
    \A p \in Procs :
        (req[p].op = "remove" /\ pc[p] = "done")
        => \/ res[p].status = 200 /\ loc[p].wver > 0
           \/ /\ res[p].status = 404 /\ res[p].error = "Item not in list"
              /\ loc[p].wver = 0 /\ loc[p].sweep = "none"

RemoveStep ==
    \A p \in Procs :
        RemoveMoves(p)
        => LET userId == req[p].user
               present == FindOne(store, userId, req[p].content) # {}
           IN  /\ (hist[userId].last = [op |-> "remove", content |-> req[p].content])
                      => ~present
               /\ IF present
                  THEN /\ FindOne(store', userId, req[p].content) = {}
                       /\ loc'[p].wver > 0
                  ELSE /\ res'[p].status = 404 /\ res'[p].error = "Item not in list"
                       /\ pc'[p] = "done"
                       /\ store' = store /\ cache' = cache /\ ver' = ver

\* C11: removeFromList for a pair that has no entry answers 404 "Item not in
\* list" and leaves the store and every cache entry as they were; a remove of a
\* present entry deletes it and returns 200, and a second remove of the same
\* pair right after it answers 404.
C11_RemoveAbsentNotFound ==
    [](RemoveOutcome) /\ [][RemoveStep]_vars

\* an entry was added and removed, and a second remove of the pair answered 404
C11_Witness ==
    \E p \in Procs :
        /\ req[p].op = "remove" /\ pc[p] = "done" /\ res[p].status = 404
        /\ hist[req[p].user].last = [op |-> "remove", content |-> req[p].content]
        /\ ver[req[p].user] = 2

\* an add that has returned a failure made no write and ran no sweep
FailedAddOutcome ==
    \A p \in Procs :
        (req[p].op = "add" /\ pc[p] = "done")
        => /\ res[p].status \in {201, 404, 409}
           /\ res[p].status # 201 => (loc[p].wver = 0 /\ loc[p].sweep = "none")

FailedAddStep ==
    \A p \in Procs :
        (req[p].op = "add" /\ pc'[p] # pc[p])
        => /\ (pc[p] = "add_check" /\ FindOne(store, req[p].user, req[p].content) # {})
                  => /\ res'[p].status = 409
                     /\ res'[p].error = "Item already exists in list"
           /\ (pc[p] = "add_lookup" /\ ~ContentExists(req[p]))
                  => /\ res'[p].status = 404
                     /\ res'[p].error = IF req[p].ctype = "movie" THEN "Movie not found"
                                        ELSE "TV Show not found"
           /\ res'[p].status \in {404, 409}
                  => /\ store' = store /\ cache' = cache /\ ver' = ver
                     /\ hist'[req[p].user].swept = hist[req[p].user].swept

\* C12: addToList answers 409 when the pair has an entry and 404 when the movie
\* or TV show does not exist; a failed add writes nothing to the store, leaves
\* the existing entry as it was and does not invalidate the user's cache.
C12_FailedAddChangesNothing ==
    [](FailedAddOutcome) /\ [][FailedAddStep]_vars

\* an add was refused as a conflict while its pair's entry and a cached page of
\* the user stay in place
C12_Witness ==
    \E p \in Procs :
        /\ req[p].op = "add" /\ pc[p] = "done"
        /\ res[p].status = 409 /\ res[p].cause = "ConflictError"
        /\ FindOne(store, req[p].user, req[p].content) # {}
        /\ UserKeys(cache, req[p].user) # {}
        /\ loc[p].sweep = "none"

-----------------------------------------------------------------------------
(* Reads while Redis is down (Spec) *)

\* the cursor of request r is not one the page function accepts
CursorRefused(r) ==
    /\ r.type = "cursor" /\ r.cursor # <<>>
    /\ LET dc == DecodeCursor(r.cursor)
       IN  ~dc.ok \/ (dc.id # <<>> /\ CastId(dc.id) = -1)

\* a list call that has returned gave a page, or refused its cursor
ListOutcome ==
    \A p \in Procs :
        (req[p].op = "list" /\ pc[p] = "done")
        => \/ res[p].status = 200
           \/ res[p].status = 400 /\ CursorRefused(req[p])

ListStepWhileDown ==
    \A p \in Procs :
        (req[p].op = "list" /\ pc'[p] # pc[p] /\ ~cacheUp)
        => /\ pc[p] = "list_get"
                  => /\ res'[p].xcache # "HIT"
                     /\ \/ pc'[p] \in {"list_query", "list_cursor"}
                        \/ res'[p].status = 400 /\ CursorRefused(req[p])
           /\ pc[p] = "list_set"
                  => /\ res'[p].status = 200 /\ res'[p].xcache = "MISS"
                     /\ SentPage(res'[p]) = JsonPage(loc[p].result)
                     /\ cache' = cache

\* C13: when the cache get fails, getList goes on as on a miss and reads the
\* store; when the cache set fails, it still returns the page it read with
\* cacheHit=false; no list call ends with an error other than a refused cursor.
C13_CacheOutageNeverFailsRead ==
    [](ListOutcome) /\ [][ListStepWhileDown]_vars

\* a list call returned a non-empty page from the store while Redis was down
\* and nothing was cached for its key
C13_Witness ==
    \E p \in Procs :
        /\ req[p].op = "list" /\ pc[p] = "done"
        /\ res[p].status = 200 /\ res[p].xcache = "MISS" /\ res[p].data # <<>>
        /\ ~cacheUp
        /\ KeyOf(req[p]) \notin DOMAIN cache

-----------------------------------------------------------------------------
(* Cursor encode / decode of one position (CodecSpec) *)

\* the entry a cursor position is taken from
CodecEntry(t, i) ==
    [id |-> i, user |-> WalkUser, content |-> "m1", ctype |-> "movie", addedAt |-> t]

CodecInit ==
    /\ \E t \in 0..MaxCodecDate, i \in 1..MaxCodecId :
          /\ codec = [phase |-> "position", addedAt |-> t, id |-> i]
          /\ store = {CodecEntry(t, i)}
    /\ nextId = MaxCodecId + 1
    /\ clock = MaxCodecDate
    /\ ver = [u \in Users |-> 0]
    /\ acked = [u \in Users |-> 0]
    /\ cache = <<>>
    /\ cacheUp = TRUE
    /\ outage = FALSE
    /\ hist = [u \in Users |-> NoHist]
    /\ pc = [p \in Procs |-> "idle"]
    /\ req = [p \in Procs |-> NoReq]
    /\ loc = [p \in Procs |-> NoLoc]
    /\ res = [p \in Procs |-> NoRes]
    /\ started = 0
    /\ hits = NoHits
    /\ catalog = NoCatalog
    /\ http = NoHttp
    /\ serial = TRUE
    /\ budget = 0
    /\ walk = NoWalk
    /\ keyq = NoKeyq
    /\ pageq = NoPageq

\* my-list-service.ts 298-303: the nextCursor of a page that ends at the entry
CodecEncode ==
    /\ codec.phase = "position"
    /\ codec' = [phase |-> "encoded", addedAt |-> codec.addedAt, id |-> codec.id,
                 cursor |-> EncodeCursor(codec.addedAt, codec.id)]
    /\ UNCHANGED <<store, nextId, clock, ver, acked, cache, cacheUp, outage, hist, pc, req,
                   loc, res, started, serial, budget, walk, keyq, pageq, http, catalog, hits>>

\* the cursor comes back in a later request: decode, cast, query
CodecDecode ==
    /\ codec.phase = "encoded"
    /\ codec' = [phase |-> "decoded", addedAt |-> codec.addedAt, id |-> codec.id,
                 cursor |-> codec.cursor,
                 dc |-> DecodeCursor(codec.cursor),
                 page |-> getListWithCursorPagination(store, WalkUser, codec.cursor, 1)]
    /\ UNCHANGED <<store, nextId, clock, ver, acked, cache, cacheUp, outage, hist, pc, req,
                   loc, res, started, serial, budget, walk, keyq, pageq, http, catalog, hits>>

CodecNext == CodecEncode \/ CodecDecode

CodecSpec == CodecInit /\ [][CodecNext]_vars

\* C14: decoding the cursor that encodes an entry's (added_at, _id) gives the
\* same instant and the same id, and the page function accepts that cursor as
\* the position right after the entry.
C14_CursorRoundTrip ==
    codec.phase = "decoded" =>
        /\ codec.dc.ok
        /\ codec.dc.date = codec.addedAt
        /\ codec.dc.id = IdStr(codec.id)
        /\ CastId(codec.dc.id) = codec.id
        /\ codec.page.kind = "ok"
        /\ codec.page.items = <<>>
        /\ codec.page.pagination.prevCursor = codec.cursor

\* a position with a two-digit instant and a two-digit id went through encode
\* and decode
C14_Witness ==
    /\ codec.phase = "decoded"
    /\ codec.addedAt >= 10 /\ codec.id >= 10
    /\ codec.dc.ok
    /\ Len(codec.cursor) = 9

-----------------------------------------------------------------------------
(* Cursors that do not decode (Spec) *)

Undecodable(r) == r.type = "cursor" /\ r.cursor # <<>> /\ ~DecodeCursor(r.cursor).ok

UndecodableRefused ==
    \A p \in Procs :
        (req[p].op = "list" /\ Undecodable(req[p]) /\ pc[p] = "done")
        => /\ res[p].status = 400 /\ res[p].error = "Invalid cursor format"
           /\ res[p].data = <<>>

UndecodableWritesNothing ==
    \A p \in Procs :
        (req[p].op = "list" /\ Undecodable(req[p]) /\ pc'[p] # pc[p]) => cache' = cache

\* C15: a cursor-mode list call whose cursor does not decode to a valid
\* added_at answers 400 "Invalid cursor format" whatever the cache holds, never
\* returns a page and writes no cache entry.
C15_UndecodableCursorRefused ==
    [](UndecodableRefused) /\ [][UndecodableWritesNothing]_vars

-----------------------------------------------------------------------------
(* One page query against a fixed store (PageSpec) *)

\* the cursor positions a client can hold: of entries present or gone, of the
\* user or of another user
PagePositions == {[t |-> t, i |-> i] : t \in 1..MaxClock, i \in 1..(MaxWalkEntries + 1)}

NoPosition == [t |-> 0, i |-> 0]

PageInit ==
    /\ \E f \in [1..MaxWalkEntries -> 0..MaxClock], other \in BOOLEAN :
          store = {WalkEntry(i, WalkUser, f[i]) : i \in {j \in 1..MaxWalkEntries : f[j] > 0}}
                  \cup (IF other THEN {WalkEntry(MaxWalkEntries + 1, OtherUser, MaxClock)}
                        ELSE {})
    /\ \/ \E page \in 1..MaxPage, limit \in 1..MaxWalkLimit :
             pageq = [phase |-> "asked", type |-> "offset", page |-> page, limit |-> limit,
                      pos |-> NoPosition, cursor |-> <<>>]
       \/ \E pos \in PagePositions \cup {NoPosition}, limit \in 1..MaxWalkLimit :
             pageq = [phase |-> "asked", type |-> "cursor", page |-> 1, limit |-> limit,
                      pos |-> pos,
                      cursor |-> IF pos = NoPosition THEN <<>>
                                 ELSE EncodeCursor(pos.t, pos.i)]
    /\ nextId = MaxWalkEntries + 2
    /\ clock = MaxClock
    /\ ver = [u \in Users |-> 0]
    /\ acked = [u \in Users |-> 0]
    /\ cache = <<>>
    /\ cacheUp = TRUE
    /\ outage = FALSE
    /\ hist = [u \in Users |-> NoHist]
    /\ pc = [p \in Procs |-> "idle"]
    /\ req = [p \in Procs |-> NoReq]
    /\ loc = [p \in Procs |-> NoLoc]
    /\ res = [p \in Procs |-> NoRes]
    /\ started = 0
    /\ hits = NoHits
    /\ catalog = NoCatalog
    /\ http = NoHttp
    /\ serial = TRUE
    /\ budget = 0
    /\ walk = NoWalk
    /\ keyq = NoKeyq
    /\ codec = NoCodec

Answered(q, result) == [q EXCEPT !.phase = "answered"] @@ [result |-> result]

\* getListWithOffsetPagination(userId, page, limit)
PageOffset ==
    /\ pageq.phase = "asked" /\ pageq.type = "offset"
    /\ \E items \in FindOffset(store, WalkUser, (pageq.page - 1) * pageq.limit, pageq.limit) :
          pageq' = Answered(pageq, OffsetPage(pageq.page, pageq.limit,
                                               CountDocuments(store, WalkUser), items))
    /\ UNCHANGED <<store, nextId, clock, ver, acked, cache, cacheUp, outage, hist, pc, req,
                   loc, res, started, serial, budget, walk, keyq, codec, http, catalog, hits>>

\* getListWithCursorPagination(userId, cursor, limit)
PageCursor ==
    /\ pageq.phase = "asked" /\ pageq.type = "cursor"
    /\ pageq' = Answered(pageq, getListWithCursorPagination(store, WalkUser, pageq.cursor,
                                                             pageq.limit))
    /\ UNCHANGED <<store, nextId, clock, ver, acked, cache, cacheUp, outage, hist, pc, req,
                   loc, res, started, serial, budget, walk, keyq, codec, http, catalog, hits>>

PageNext == PageOffset \/ PageCursor

PageSpec == PageInit /\ [][PageNext]_vars

OffsetAnswered == pageq.phase = "answered" /\ pageq.type = "offset"

CursorAnswered == pageq.phase = "answered" /\ pageq.type = "cursor"

\* C16: the items of offset page (page, limit) are the entries at positions
\* (page-1)*limit .. (page-1)*limit+limit-1 of the user's entries in
\* (added_at descending, _id descending) order; beyond the last page the item
\* list is empty and the call still returns a pagination block.
C16_OffsetPageContents ==
    OffsetAnswered =>
        /\ pageq.result.kind = "ok"
        /\ pageq.result.pagination.type = "offset"
        /\ pageq.result.items =
              MapItems(Slice(SortCanon(EntriesOf(store, WalkUser)),
                             (pageq.page - 1) * pageq.limit, pageq.limit))

\* the least number of pages of the given size that hold n entries
PagesFor(n, limit) == CHOOSE k \in 0..n : k * limit >= n /\ (k = 0 \/ (k - 1) * limit < n)

\* C17: the pagination block of an offset page over n entries has totalItems =
\* n, totalPages = ceil(n / limit), hasNextPage = (page < totalPages) and
\* hasPrevPage = (page > 1), and the page holds the entries left from its
\* offset on, at most limit of them.
C17_OffsetMetadata ==
    OffsetAnswered =>
        LET n == Cardinality(EntriesOf(store, WalkUser))
            skip == (pageq.page - 1) * pageq.limit
            pg == pageq.result.pagination
        IN  /\ pg = [type |-> "offset", page |-> pageq.page, limit |-> pageq.limit,
                     totalItems |-> n, totalPages |-> PagesFor(n, pageq.limit),
                     hasNextPage |-> pageq.page < PagesFor(n, pageq.limit),
                     hasPrevPage |-> pageq.page > 1]
            /\ Len(pageq.result.items) = IF n <= skip THEN 0 ELSE Min(pageq.limit, n - skip)

\* page 2 with limit 2 over three entries: one item, two pages, no next page
C17_Witness ==
    /\ OffsetAnswered /\ pageq.page = 2 /\ pageq.limit = 2
    /\ Cardinality(EntriesOf(store, WalkUser)) = 3
    /\ Len(pageq.result.items) = 1
    /\ pageq.result.pagination.totalPages = 2
    /\ ~pageq.result.pagination.hasNextPage
    /\ pageq.result.pagination.hasPrevPage

\* the user's entries after the position of the query's cursor
AfterPosition ==
    {e \in EntriesOf(store, WalkUser) :
        pageq.pos # NoPosition =>
            \/ e.addedAt < pageq.pos.t
            \/ e.addedAt = pageq.pos.t /\ e.id < pageq.pos.i}

\* C18: a cursor page returns the first limit entries after the cursor
\* position; hasNextPage is true exactly when more than limit entries lie
\* after it; nextCursor is non-null exactly when hasNextPage is true and then
\* encodes the (added_at, _id) of the last item returned.
C18_CursorNextPage ==
    CursorAnswered =>
        LET rest == SortCanon(AfterPosition)
            pg == pageq.result.pagination
            items == pageq.result.items
        IN  /\ pageq.result.kind = "ok"
            /\ items = MapItems(Take(rest, pageq.limit))
            /\ Len(items) <= pageq.limit
            /\ pg.hasNextPage <=> Len(rest) > pageq.limit
            /\ pg.nextCursor # <<>> <=> pg.hasNextPage
            /\ pg.hasNextPage =>
                  LET dc == DecodeCursor(pg.nextCursor)
                  IN  /\ dc.ok
                      /\ dc.date = items[Len(items)].addedAt
                      /\ dc.id = items[Len(items)].id

\* a page of two items after a cursor, with a third entry left for the next
C18_Witness ==
    /\ CursorAnswered /\ pageq.pos # NoPosition /\ pageq.limit = 2
    /\ Len(pageq.result.items) = 2
    /\ pageq.result.pagination.hasNextPage
    /\ Cardinality(AfterPosition) = 3
    /\ EntriesOf(store, OtherUser) # {}

-----------------------------------------------------------------------------
(* User isolation (Spec) *)

\* the keys of cache c derived from requests of the user
KeysDerivedFor(c, userId) == {k \in DOMAIN c : KeyUser(k) = userId}

OwnItems(items, userId) ==
    \A i \in 1..Len(items) : items[i].id \in hist[userId].owned

\* every page sent to a user and every page cached under a key of a user
\* holds entries created for that user only
OwnPagesOnly ==
    /\ \A p \in Procs :
          (req[p].op = "list" /\ res[p].status = 200) => OwnItems(res[p].data, req[p].user)
    /\ \A userId \in Users : \A k \in KeysDerivedFor(cache, userId) :
          OwnItems(cache[k].data.items, userId)

\* a step of a mutation of one user leaves the entries and the cache entries
\* of every other user as they were
OthersUntouched ==
    \A p \in Procs :
        (IsMutation(req[p]) /\ (pc'[p] # pc[p] \/ loc'[p] # loc[p]))
        => \A userId \in Users \ {req[p].user} :
              /\ EntriesOf(store', userId) = EntriesOf(store, userId)
              /\ KeysDerivedFor(cache', userId) = KeysDerivedFor(cache, userId)
              /\ \A k \in KeysDerivedFor(cache, userId) : cache'[k] = cache[k]

\* C19: every page getList returns for a user, from the store or from the
\* cache, holds only entries of that user, and no step of another user's add or
\* remove changes the user's entries or the user's cache entries.
C19_UserIsolation ==
    [](OwnPagesOnly) /\ [][OthersUntouched]_vars

\* user u's add has been swept and acknowledged while a page of user u1, whose
\* id starts with u, is still cached
C19_Witness ==
    \E p \in Procs :
        /\ req[p].op = "add" /\ req[p].user = <<"u">>
        /\ res[p].status = 201 /\ loc[p].sweep = "swept"
        /\ KeysDerivedFor(cache, <<"u", "1">>) # {}
        /\ EntriesOf(store, <<"u">>) # {}

-----------------------------------------------------------------------------
(* The sweep of one user's keys on its own (SweepSpec) *)

\* the entries before the remove whose sweep is followed
SweepBefore == {WalkEntry(1, <<"u">>, 1), WalkEntry(2, <<"u", "1">>, 1)}

\* list requests whose pages may be cached when the sweep starts
SweepInputs ==
    {[NoReq EXCEPT !.op = "list", !.user = u, !.type = "offset", !.page = q[1], !.limit = q[2]] :
        u \in Users, q \in {<<1, 1>>, <<2, 10>>, <<11, 1>>}}
    \cup
    {[NoReq EXCEPT !.op = "list", !.user = e.user, !.type = "cursor", !.page = 1,
                   !.limit = 1] : e \in SweepBefore}
    \cup
    {[NoReq EXCEPT !.op = "list", !.user = e.user, !.type = "cursor", !.page = 1,
                   !.limit = 10, !.cursor = EncodeCursor(e.addedAt, e.id)] : e \in SweepBefore}

\* the cache holding the pages of the requests rs, read before the remove
SweepCache(rs) ==
    LET keys == {KeyOf(r) : r \in rs}
        from(k) == CHOOSE r \in rs : KeyOf(r) = k
    IN  [k \in keys |-> [data |-> CHOOSE pg \in PagesOf(SweepBefore, from(k)) : TRUE,
                         ver |-> 0, ttl |-> CACHE_TTL_SECONDS]]

\* removeFromList of a user has deleted the entry and calls invalidateUserCache
SweepInit ==
    /\ \E e \in SweepBefore, rs \in SUBSET SweepInputs :
          /\ store = SweepBefore \ {e}
          /\ req = [p \in Procs |-> IF p = 1
                                    THEN [NoReq EXCEPT !.op = "remove", !.user = e.user,
                                                       !.content = e.content]
                                    ELSE NoReq]
          /\ ver = [u \in Users |-> IF u = e.user THEN 1 ELSE 0]
          /\ cache = SweepCache(rs)
    /\ nextId = 3
    /\ clock = 1
    /\ acked = [u \in Users |-> 0]
    /\ cacheUp = TRUE
    /\ outage = FALSE
    /\ hist = [u \in Users |-> NoHist]
    /\ pc = [p \in Procs |-> IF p = 1 THEN "inv_scan" ELSE "idle"]
    /\ loc = [p \in Procs |-> IF p = 1 THEN [NoLoc EXCEPT !.wver = 1] ELSE NoLoc]
    /\ res = [p \in Procs |-> NoRes]
    /\ started = 1
    /\ hits = NoHits
    /\ catalog = NoCatalog
    /\ http = NoHttp
    /\ serial = FALSE
    /\ budget = 0
    /\ walk = NoWalk
    /\ keyq = NoKeyq
    /\ codec = NoCodec
    /\ pageq = NoPageq

SweepNext == InvScan(1) \/ InvDel(1)

SweepSpec == SweepInit /\ [][SweepNext]_vars

\* when the sweep is over it has succeeded, the remove is answered 200 and no
\* key derived for the user is left
SweepRemovesOwnKeys ==
    pc[1] = "done" =>
        /\ loc[1].sweep = "swept"
        /\ res[1].status = 200
        /\ KeysDerivedFor(cache, req[1].user) = {}

\* no step of the sweep adds, removes or rewrites a key of another user
SweepKeepsOtherKeys ==
    \A userId \in Users \ {req[1].user} :
        /\ KeysDerivedFor(cache', userId) = KeysDerivedFor(cache, userId)
        /\ \A k \in KeysDerivedFor(cache, userId) : cache'[k] = cache[k]

\* C20: with Redis available and no concurrent cache write, invalidateUserCache
\* of a user ends without error with every offset key and every cursor key of
\* that user gone, whatever the page, cursor or limit, also when the user has
\* no key, and leaves every key of every other user as it was, also when one
\* user id is a prefix of the other.
C20_SweepRemovesExactlyOwnKeys ==
    [](SweepRemovesOwnKeys) /\ [][SweepKeepsOtherKeys]_vars

\* the sweep of user u has deleted an offset key and a cursor key of u while
\* keys of user u1 are still cached
C20_Witness ==
    /\ pc[1] = "done" /\ req[1].user = <<"u">>
    /\ \E k \in hist[<<"u">>].swept : k[5] = "offset"
    /\ \E k \in hist[<<"u">>].swept : k[5] = "cursor"
    /\ KeysDerivedFor(cache, <<"u", "1">>) # {}

-----------------------------------------------------------------------------
(* An add and a remove of one existing entry, run concurrently (RaceSpec) *)

\* the pages of the requests rs as read from store s, cached
CachedPages(s, rs) ==
    LET keys == {KeyOf(r) : r \in rs}
        from(k) == CHOOSE r \in rs : KeyOf(r) = k
    IN  [k \in keys |-> [data |-> CHOOSE pg \in PagesOf(s, from(k)) : TRUE, ver |-> 1,
                         ttl |-> CACHE_TTL_SECONDS]]

\* list requests whose pages may be cached when the two calls arrive
RaceInputs ==
    {[NoReq EXCEPT !.op = "list", !.user = u, !.type = "offset", !.page = 1, !.limit = 1] :
        u \in Users}
    \cup {[NoReq EXCEPT !.op = "list", !.user = <<"u">>, !.type = "cursor", !.page = 1,
                        !.limit = 1]}

\* the catalog type of a content id
TypeOf(contentId) == IF contentId \in Movies THEN "movie" ELSE "tvshow"

\* the entry of (user, content) is in the list, possibly next to the same
\* content in the other user's list; slot 1 serves POST /api/my-list and slot 2
\* DELETE /api/my-list/:contentId for that pair, both just arrived
RaceInit ==
    /\ \E userId \in Users, a \in AddInputs, other \in BOOLEAN, rs \in SUBSET RaceInputs :
          LET mine == [id |-> 1, user |-> userId, content |-> a.content,
                       ctype |-> TypeOf(a.content), addedAt |-> 1]
              theirs == {[id |-> 2, user |-> u, content |-> a.content,
                          ctype |-> TypeOf(a.content), addedAt |-> 1] :
                            u \in IF other THEN Users \ {userId} ELSE {}}
          IN  /\ store = {mine} \cup theirs
              /\ req = [p \in Procs |->
                          IF p = 1 THEN [NoReq EXCEPT !.op = "add", !.user = userId,
                                                      !.content = a.content,
                                                      !.ctype = a.ctype]
                          ELSE IF p = 2 THEN [NoReq EXCEPT !.op = "remove", !.user = userId,
                                                           !.content = a.content]
                          ELSE NoReq]
              /\ ver = [u \in Users |-> Cardinality(EntriesOf(store, u))]
              /\ acked = [u \in Users |-> Cardinality(EntriesOf(store, u))]
              /\ hist = [u \in Users |->
                           [NoHist EXCEPT !.owned = {IdStr(e.id) : e \in EntriesOf(store, u)}]]
              /\ loc = [p \in Procs |->
                          IF p \in {1, 2} THEN [NoLoc EXCEPT !.ack0 = 1] ELSE NoLoc]
              /\ cache = CachedPages(store, rs)
    /\ nextId = 3
    /\ clock = 1
    /\ cacheUp = TRUE
    /\ outage = FALSE
    /\ pc = [p \in Procs |-> IF p = 1 THEN "add_check"
                             ELSE IF p = 2 THEN "rem_delete" ELSE "idle"]
    /\ res = [p \in Procs |-> NoRes]
    /\ started = 2
    /\ hits = NoHits
    /\ catalog = NoCatalog
    /\ http = NoHttp
    /\ serial = FALSE
    /\ budget = 2
    /\ walk = NoWalk
    /\ keyq = NoKeyq
    /\ codec = NoCodec
    /\ pageq = NoPageq

RaceNext ==
    \/ \E p \in {1, 2} :
          \/ AddCheck(p) \/ AddLookup(p) \/ AddCreate(p)
          \/ RemDelete(p)
          \/ InvScan(p) \/ InvDel(p)
    \/ CacheFail \/ CacheRecover

RaceSpec == RaceInit /\ [][RaceNext]_vars

\* the entries of the pair the two calls are about
RacePair == FindOne(store, req[1].user, req[1].content)

\* the add names the content with the type it has in the catalog
RaceSameContent == req[1].ctype = TypeOf(req[1].content)

-----------------------------------------------------------------------------
(* Contents and order of one page (PageSpec) *)

\* the user's entries the cursor of the query selects
Selected ==
    IF pageq.pos = NoPosition THEN EntriesOf(store, WalkUser)
    ELSE {e \in EntriesOf(store, WalkUser) :
             \/ e.addedAt < pageq.pos.t
             \/ e.addedAt = pageq.pos.t /\ e.id < pageq.pos.i}

\* the entry an item of a page was mapped from
EntryOfItem(item) == CHOOSE e \in store : mapToListItemData(e) = item

IsItem(item) == \E e \in store : mapToListItemData(e) = item

\* C22: a cursor page holds min(limit, number selected) items, each one a
\* selected entry of the user, in canonical order, and no selected entry left
\* out comes before one that is on the page; the selected entries are those with
\* addedAt < c.addedAt or addedAt = c.addedAt and id < c.id, or all of the
\* user's entries when no cursor is given.
C22_CursorPageContents ==
    CursorAnswered =>
        LET items == pageq.result.items
            n == Len(items)
        IN  /\ pageq.result.kind = "ok"
            /\ n = Min(pageq.limit, Cardinality(Selected))
            /\ \A i \in 1..n : IsItem(items[i]) /\ EntryOfItem(items[i]) \in Selected
            /\ \A i \in 1..n : \A j \in (i + 1)..n :
                   Before(EntryOfItem(items[i]), EntryOfItem(items[j]))
            /\ \A e \in Selected :
                   (\A i \in 1..n : EntryOfItem(items[i]) # e)
                   => \A i \in 1..n : Before(EntryOfItem(items[i]), e)

\* a page after a cursor whose instant two entries of the user share: the one
\* with the smaller id is on the page, the one at the cursor is not
C22_Witness ==
    /\ CursorAnswered /\ pageq.pos # NoPosition
    /\ Len(pageq.result.items) >= 1
    /\ EntryOfItem(pageq.result.items[1]).addedAt = pageq.pos.t
    /\ \E e \in EntriesOf(store, WalkUser) : e.addedAt = pageq.pos.t /\ e.id = pageq.pos.i
    /\ Cardinality(Selected) > pageq.limit
\* C23: the items of every page, in offset mode and in cursor mode, are in
\* canonical order: added_at descending and, among entries with the same
\* added_at, _id descending.
C23_CanonicalOrderOnPage ==
    (pageq.phase = "answered" /\ pageq.result.kind = "ok") =>
        LET items == pageq.result.items
        IN  \A i \in 1..Len(items) : \A j \in (i + 1)..Len(items) :
               Before(EntryOfItem(items[i]), EntryOfItem(items[j]))

\* the same, for the pages of cursor mode alone
CursorPagesInCanonicalOrder == CursorAnswered => C23_CanonicalOrderOnPage

-----------------------------------------------------------------------------
(* Offset pages read while the list changes (CountSpec) *)

MaxCountRequests == 3

\* the service with list calls and mutations in any interleaving, Redis up
CountInit ==
    /\ store = {}
    /\ nextId = 1
    /\ clock = 1
    /\ ver = [u \in Users |-> 0]
    /\ acked = [u \in Users |-> 0]
    /\ cache = <<>>
    /\ cacheUp = TRUE
    /\ outage = FALSE
    /\ hist = [u \in Users |-> NoHist]
    /\ pc = [p \in Procs |-> "idle"]
    /\ req = [p \in Procs |-> NoReq]
    /\ loc = [p \in Procs |-> NoLoc]
    /\ res = [p \in Procs |-> NoRes]
    /\ started = 0
    /\ hits = NoHits
    /\ catalog = NoCatalog
    /\ http = NoHttp
    /\ serial = FALSE
    /\ budget = MaxCountRequests
    /\ walk = NoWalk
    /\ keyq = NoKeyq
    /\ codec = NoCodec
    /\ pageq = NoPageq

CountNext == \E p \in Workers : MutationStep(p) \/ ListStep(p)

CountSpec == CountInit /\ [][CountNext]_vars

\* min(limit, max(0, totalItems - (page - 1) * limit))
ExpectedItems(pg) ==
    LET left == pg.totalItems - (pg.page - 1) * pg.limit
    IN  Min(pg.limit, IF left < 0 THEN 0 ELSE left)

Dist(a, b) == IF a < b THEN b - a ELSE a - b

\* C24: an offset page returned by a list call that k mutations of the user's
\* list overlapped holds a number of items within k of min(limit, max(0,
\* totalItems - (page-1)*limit)) for the totalItems it reports; with k = 0 the
\* two are equal.
C24_OffsetCountWithinOverlap ==
    [][\A p \in Procs :
          (ListReturns(p) /\ req[p].type = "offset")
          => Dist(Len(res'[p].data), ExpectedItems(res'[p].pagination)) <= loc[p].overlap]_vars

\* the same bound for the pages built from the two store reads of the call
OffsetCountWithinOverlapOnMiss ==
    [][\A p \in Procs :
          (ListReturns(p) /\ req[p].type = "offset" /\ res'[p].xcache = "MISS")
          => Dist(Len(res'[p].data), ExpectedItems(res'[p].pagination)) <= loc[p].overlap]_vars

\* a page built from reads that a mutation separated: one item short or over
OffsetCountOffByOne ==
    \E p \in Procs :
        /\ req[p].op = "list" /\ req[p].type = "offset" /\ pc[p] = "done"
        /\ res[p].status = 200 /\ res[p].xcache = "MISS"
        /\ Dist(Len(res[p].data), ExpectedItems(res[p].pagination)) = 1
\* C25: on a cursor page hasPrevPage is true exactly when the request carried
\* a cursor and prevCursor is that cursor as given, null (the empty sequence)
\* when none was given, whatever the store holds.
C25_PrevEchoesCursor ==
    CursorAnswered =>
        /\ pageq.result.kind = "ok"
        /\ pageq.result.pagination.hasPrevPage = (pageq.cursor # <<>>)
        /\ pageq.result.pagination.prevCursor = pageq.cursor

\* a cursor page of a user without entries: hasPrevPage is true all the same
C25_Witness ==
    /\ CursorAnswered /\ pageq.cursor # <<>>
    /\ EntriesOf(store, WalkUser) = {}
    /\ pageq.result.pagination.hasPrevPage
    /\ pageq.result.pagination.prevCursor = EncodeCursor(pageq.pos.t, pageq.pos.i)

-----------------------------------------------------------------------------
(* A walk that starts from a cursor without id (LegacySpec) *)

\* base64 of JSON {"added_at": <ISO-8601>}: a cursor of the older format
LegacyCursor(t) == Base64Encode(<<"{", "added_at">> \o ISO(t) \o <<"}">>)

\* a client holding a cursor without id for the instant t walks on from it
LegacyInit ==
    /\ \E f \in [1..MaxWalkEntries -> 0..MaxClock], other \in BOOLEAN :
          store = {WalkEntry(i, WalkUser, f[i]) : i \in {j \in 1..MaxWalkEntries : f[j] > 0}}
                  \cup (IF other THEN {WalkEntry(MaxWalkEntries + 1, OtherUser, 1)}
                        ELSE {})
    /\ \E limit \in 1..MaxWalkLimit, t \in 1..(MaxClock + 1) :
          walk = [since |-> t] @@
                 [NewWalk(limit) EXCEPT !.mode = "legacy", !.cursor = LegacyCursor(t),
                                        !.odone = TRUE]
    /\ nextId = MaxWalkEntries + 2
    /\ clock = MaxClock
    /\ ver = [u \in Users |-> 0]
    /\ acked = [u \in Users |-> 0]
    /\ cache = <<>>
    /\ cacheUp = TRUE
    /\ outage = FALSE
    /\ hist = [u \in Users |-> NoHist]
    /\ pc = [p \in Procs |-> "idle"]
    /\ req = [p \in Procs |-> NoReq]
    /\ loc = [p \in Procs |-> NoLoc]
    /\ res = [p \in Procs |-> NoRes]
    /\ started = 0
    /\ hits = NoHits
    /\ catalog = NoCatalog
    /\ http = NoHttp
    /\ serial = TRUE
    /\ budget = 0
    /\ keyq = NoKeyq
    /\ codec = NoCodec
    /\ pageq = NoPageq

\* GET ?type=cursor&limit=..&cursor=<the cursor held>, then along nextCursor
LegacyStep ==
    /\ walk.mode = "legacy" /\ ~walk.cdone
    /\ LET page == getListWithCursorPagination(store, WalkUser, walk.cursor, walk.limit)
       IN  walk' = IF page.kind # "ok"
                   THEN [walk EXCEPT !.cdone = TRUE, !.cfailed = TRUE]
                   ELSE [walk EXCEPT !.cseen = @ \o IdsOf(page.items),
                                     !.cpages = @ + 1,
                                     !.cursor = page.pagination.nextCursor,
                                     !.chasNext = page.pagination.hasNextPage,
                                     !.cdone = (page.pagination.nextCursor = <<>>)]
    /\ UNCHANGED <<store, nextId, clock, ver, acked, cache, cacheUp, outage, hist, pc, req,
                   loc, res, started, serial, budget, keyq, codec, pageq, http, catalog, hits>>

LegacyNext == LegacyStep

LegacySpec == LegacyInit /\ [][LegacyNext]_vars

\* the user's entries added strictly before the instant of the first cursor
StrictlyOlder == {e \in EntriesOf(store, WalkUser) : e.addedAt < walk.since}

\* C26: a cursor with a valid added_at and no id is accepted; its page holds
\* the first limit of the user's entries with added_at strictly below the
\* cursor's, and the walk from it returns exactly those entries, each once, so
\* that no entry sharing the cursor's added_at is on any page of the walk.
C26_CursorWithoutId ==
    walk.mode = "legacy" =>
        LET older == MapItems(SortCanon(StrictlyOlder))
        IN  /\ ~walk.cfailed
            /\ walk.cseen = Take(IdsOf(older), Len(walk.cseen))
            /\ walk.cpages = 1 => Len(walk.cseen) = Min(walk.limit, Len(older))
            /\ walk.cdone => Len(walk.cseen) = Len(older)
            /\ \A e \in EntriesOf(store, WalkUser) :
                   e.addedAt = walk.since => IdStr(e.id) \notin Range(walk.cseen)

\* a finished walk of two pages from a cursor whose instant an entry shares
C26_Witness ==
    /\ walk.mode = "legacy" /\ walk.cdone /\ walk.cpages = 2
    /\ Len(walk.cseen) = 2
    /\ \E e \in EntriesOf(store, WalkUser) : e.addedAt = walk.since

-----------------------------------------------------------------------------
(* Adds of content the catalog does not hold (MutSpec) *)

\* findById on the collection of the request's contentType finds nothing
ContentMissing(r) ==
    IF r.ctype = "movie" THEN r.content \notin Movies ELSE r.content \notin Shows

\* C27: an add whose content lookup finds nothing answers NotFound, whether or
\* not the pair is already in the list, and never Conflict.
C27_NotFoundBeforeConflict ==
    \A p \in Procs :
        (req[p].op = "add" /\ pc[p] = "done" /\ ContentMissing(req[p]))
        => /\ res[p].status = 404
           /\ res[p].cause = "NotFoundError"

\* an add of missing content answers NotFound when the pair is not in the list
\* at its findOne
MissingContentRefused ==
    \A p \in Procs :
        (req[p].op = "add" /\ pc[p] = "done" /\ ContentMissing(req[p]))
        => res[p] \in {MovieNotFound, TVShowNotFound, ConflictResponse}

-----------------------------------------------------------------------------
(* Store failures (FaultSpec) *)

\* errorHandler: an error that is no ApiError, duplicate key or CastError
StoreError == Response(500, "Internal server error", "MongoNetworkError")

\* the places where a handler awaits the store
AtStore(p) ==
    pc[p] \in {"add_check", "add_lookup", "add_create", "rem_delete",
               "list_query", "list_cursor"}

\* a getList that answers a failed store read with an empty page and caches it
StoreFailsCached(p) ==
    /\ AtStore(p)
    /\ IF req[p].op = "list"
       THEN LET data == JsonPage(OffsetPage(1, LimitOf(req[p]), 0, <<>>))
            IN  ListDone(p, ListResponse(data, "MISS", 0),
                         CacheServiceSet(cache, KeyOf(req[p]), [data |-> data, ver |-> 0]))
       ELSE Finish(p, StoreError)

\* the store operation slot p awaits rejects: the error leaves the service
\* method at that await and the controller hands it to errorHandler
StoreFails(p) ==
    /\ AtStore(p)
    /\ Finish(p, StoreError)

FaultNext ==
    \E p \in Workers : MutationStep(p) \/ ListStep(p) \/ StoreFails(p)

FaultSpec == Init /\ [][FaultNext]_vars

Failed(p) == pc[p] = "done" /\ res[p].cause = "MongoNetworkError"

\* a call that a store failure ended answered 500, wrote nothing to the store
\* and started no sweep
FailedCallDidNothing ==
    \A p \in Procs :
        Failed(p) => /\ res[p].status = 500 /\ res[p].data = <<>>
                     /\ loc[p].wver = 0
                     /\ loc[p].sweep = "none"

\* no step of a call that ends in a store failure changes the store or the cache
FailingStepWritesNothing ==
    \A p \in Procs :
        (pc'[p] # pc[p] /\ AtStore(p) /\ res'[p].cause = "MongoNetworkError")
        => store' = store /\ cache' = cache

\* no step of a list call before its cache write changes the cache
ListWritesAfterReadsOnly ==
    \A p \in Procs :
        (req[p].op = "list" /\ pc'[p] # pc[p] /\ pc[p] \in {"list_get", "list_query", "list_cursor"})
        => cache' = cache

\* C28: a store failure ends the call with an error and is never cached: a
\* list call whose store read fails writes no cache entry; an add whose create
\* fails, or a remove whose delete fails, leaves the entries as they were and
\* does not sweep the user's cache.
C28_StoreFailurePropagates ==
    [](FailedCallDidNothing)
    /\ [][FailingStepWritesNothing /\ ListWritesAfterReadsOnly]_vars

\* an add of catalog content that a store failure ended, with a page of the
\* user still cached and no entry of the pair in the list
C28_Witness ==
    \E p \in Procs :
        /\ Failed(p) /\ req[p].op = "add" /\ ~ContentMissing(req[p])
        /\ FindOne(store, req[p].user, req[p].content) = {}
        /\ KeysDerivedFor(cache, req[p].user) # {}

-----------------------------------------------------------------------------
(* What a successful add or remove writes (MutSpec) *)

\* slot p performs its store write in this step and goes on to the sweep
Writes(p) == pc[p] \in {"add_create", "rem_delete"} /\ pc'[p] = "inv_scan"

\* the write of an add puts one new entry for the request's user, content and
\* type next to the entries there were; the write of a remove takes away the
\* one entry of the request's user and content
OneEntryWritten(p) ==
    IF req[p].op = "add"
    THEN \E e \in store' \ store :
            /\ store' = store \cup {e}
            /\ e.user = req[p].user /\ e.content = req[p].content
            /\ e.ctype = req[p].ctype
            /\ \A f \in store : f.id # e.id
    ELSE \E e \in store :
            /\ store' = store \ {e}
            /\ e.user = req[p].user /\ e.content = req[p].content

\* the store changes only in the write of a slot, and then as OneEntryWritten
StoreWrittenOncePerCall ==
    /\ store' # store => \E p \in Procs : Writes(p)
    /\ \A p \in Procs : Writes(p) => OneEntryWritten(p)
    /\ \A p \in Procs : (pc'[p] = "inv_scan" /\ pc[p] # "inv_scan") => Writes(p)

\* an add answered 201 or a remove answered 200 has written once and swept once
AnsweredAfterWriteAndSweep ==
    \A p \in Procs :
        (IsMutation(req[p]) /\ pc[p] = "done" /\ res[p].status \in {200, 201})
        => loc[p].wver > 0 /\ loc[p].sweep \in {"swept", "failed"}

\* C29: a successful add writes the store once, adding one new entry of its
\* user for the given content and type and leaving every other entry of every
\* user as it was, and sweeps once; a successful remove deletes the one entry
\* of its user and content and no other entry.
C29_OneWriteOneSweep ==
    [](AnsweredAfterWriteAndSweep) /\ [][StoreWrittenOncePerCall]_vars

\* a remove has been answered 200 while the other user's entry for the same
\* content is still in the list
C29_Witness ==
    \E p \in Procs :
        /\ req[p].op = "remove" /\ pc[p] = "done" /\ res[p].status = 200
        /\ FindOne(store, req[p].user, req[p].content) = {}
        /\ \E e \in store : e.content = req[p].content /\ e.user # req[p].user

-----------------------------------------------------------------------------
(* The life of an entry (ReaddSpec) *)

MaxReaddRequests == 3

\* the first entry ever created: content m1 in the list of some user, added at
\* instant 1
FirstEntry(userId) ==
    [id |-> 1, user |-> userId, content |-> "m1", ctype |-> "movie", addedAt |-> 1]

ReaddInit ==
    /\ \E userId \in Users :
          /\ store = {FirstEntry(userId)}
          /\ ver = [u \in Users |-> IF u = userId THEN 1 ELSE 0]
          /\ acked = [u \in Users |-> IF u = userId THEN 1 ELSE 0]
          /\ hist = [u \in Users |->
                       IF u = userId THEN [NoHist EXCEPT !.owned = {IdStr(1)}] ELSE NoHist]
    /\ nextId = 2
    /\ clock = 1
    /\ cache = <<>>
    /\ cacheUp = TRUE
    /\ outage = FALSE
    /\ pc = [p \in Procs |-> "idle"]
    /\ req = [p \in Procs |-> NoReq]
    /\ loc = [p \in Procs |-> NoLoc]
    /\ res = [p \in Procs |-> NoRes]
    /\ started = 0
    /\ hits = NoHits
    /\ catalog = NoCatalog
    /\ http = NoHttp
    /\ serial = FALSE
    /\ budget = MaxReaddRequests
    /\ walk = NoWalk
    /\ keyq = NoKeyq
    /\ codec = NoCodec
    /\ pageq = NoPageq

ReaddNext ==
    \E p \in Workers :
        \/ StartAdd(p) \/ StartRemove(p)
        \/ AddCheck(p) \/ AddLookup(p) \/ AddCreate(p)
        \/ RemDelete(p)
        \/ InvScan(p)

ReaddSpec == ReaddInit /\ [][ReaddNext]_vars

\* an entry that is in the store before and after a step is the same in every
\* field; an entry leaves the store only in a deleteOne that names it and
\* enters it only in a create
NeverMutated ==
    /\ \A e \in store : \A f \in store' : f.id = e.id => f = e
    /\ \A e \in store \ store' :
          \E p \in Procs : /\ pc[p] = "rem_delete" /\ pc'[p] = "inv_scan"
                            /\ req[p].user = e.user /\ req[p].content = e.content
    /\ \A e \in store' \ store :
          \E p \in Procs : /\ pc[p] = "add_create" /\ pc'[p] = "inv_scan"
                            /\ req[p].user = e.user /\ req[p].content = e.content

\* an entry created in a step has an _id no entry had before and the added_at
\* read from the clock in that step
CreatedFresh ==
    \A e \in store' \ store :
        /\ \A u \in Users : IdStr(e.id) \notin hist[u].owned
        /\ e.addedAt = clock'
        /\ e.addedAt >= clock

\* the entries of the first entry's user and content other than the first entry
ListedAgain ==
    {e \in store : /\ e.content = "m1" /\ IdStr(1) \in hist[e.user].owned
                   /\ e # FirstEntry(e.user)}

-----------------------------------------------------------------------------
(* Expiry of cache entries (SeqSpec) *)

\* every entry in the cache was stored with the configured TTL
AllEntriesExpire ==
    \A k \in DOMAIN cache : cache[k].ttl = CACHE_TTL_SECONDS /\ cache[k].ttl > 0

\* the TTL of the key of request r ran out and no list call returned a page
\* for it since
ExpiredUnread(r) ==
    /\ KeyOf(r) \in hist[r.user].expired
    /\ KeyOf(r) \notin DOMAIN hist[r.user].reads

\* the list call that returns a page for such a key is a miss that stores the
\* page it read from the store, again with the TTL
ExpiredThenMiss ==
    \A p \in Procs :
        (ListReturns(p) /\ ExpiredUnread(req[p]))
        => LET key == KeyOf(req[p])
           IN  /\ res'[p].xcache = "MISS"
               /\ key \in DOMAIN cache'
               /\ cache'[key].data = SentPage(res'[p])
               /\ cache'[key].data \in PagesOf(store, req[p])
               /\ cache'[key].ttl = CACHE_TTL_SECONDS

\* C31: every cache entry getList writes has the TTL of CACHE_TTL_SECONDS (300
\* by default), none is stored without one; with no mutation in between, the
\* first list call on a key after its TTL ran out reports a miss and stores the
\* page it read from the store under the key again.
C31_EntriesExpire ==
    [](AllEntriesExpire) /\ [][ExpiredThenMiss]_vars

\* a key that ran out was read again: a miss, and the page is back in the cache
C31_Witness ==
    \E p \in Procs :
        /\ req[p].op = "list" /\ pc[p] = "done" /\ res[p].status = 200
        /\ KeyOf(req[p]) \in hist[req[p].user].expired
        /\ KeyOf(req[p]) \in DOMAIN hist[req[p].user].reads
        /\ res[p].xcache = "MISS"
        /\ KeyOf(req[p]) \in DOMAIN cache
        /\ res[p].data # <<>>

-----------------------------------------------------------------------------
(* The middleware chain around the service: one HTTP exchange (http) *)

\* every variable of the service at rest; the exchange in http is the only
\* thing that moves in the specifications of the middleware chain
ServiceAtRest ==
    /\ store = {}
    /\ nextId = 1
    /\ clock = 1
    /\ ver = [u \in Users |-> 0]
    /\ acked = [u \in Users |-> 0]
    /\ cache = <<>>
    /\ cacheUp = TRUE
    /\ outage = FALSE
    /\ hist = [u \in Users |-> NoHist]
    /\ pc = [p \in Procs |-> "idle"]
    /\ req = [p \in Procs |-> NoReq]
    /\ loc = [p \in Procs |-> NoLoc]
    /\ res = [p \in Procs |-> NoRes]
    /\ started = 0
    /\ hits = NoHits
    /\ catalog = NoCatalog
    /\ serial = TRUE
    /\ budget = 0
    /\ walk = NoWalk
    /\ keyq = NoKeyq
    /\ codec = NoCodec
    /\ pageq = NoPageq

ServiceUntouched ==
    UNCHANGED <<store, nextId, clock, ver, acked, cache, cacheUp, outage, hist, pc, req,
                loc, res, started, serial, budget, walk, keyq, codec, pageq, catalog, hits>>

-----------------------------------------------------------------------------
(* errorHandler (ErrSpec) *)

\* error-handler.ts 7-41: ApiError and its subclasses carry their status
ApiError(name, statusCode, message) ==
    [name |-> name, api |-> TRUE, statusCode |-> statusCode, message |-> message, code |-> 0]
NotFoundError(message) == ApiError("NotFoundError", 404, message)
ConflictError(message) == ApiError("ConflictError", 409, message)
BadRequestError(message) == ApiError("BadRequestError", 400, message)
\* an error raised by mongoose, the driver or the runtime: no statusCode
ForeignError(name, code, message) ==
    [name |-> name, api |-> FALSE, statusCode |-> 0, message |-> message, code |-> code]

\* an error handler that knows the ApiError classes only
errorHandlerApiOnly(error) ==
    IF error.api
    THEN [status |-> error.statusCode, error |-> error.message, details |-> <<>>]
    ELSE [status |-> 500, error |-> "Internal server error", details |-> <<>>]

\* error-handler.ts 46-101
errorHandler(error) ==
    IF error.api
    THEN [status |-> error.statusCode, error |-> error.message, details |-> <<>>]
    ELSE IF error.name = "MongoServerError" /\ error.code = 11000
    THEN [status |-> 409, error |-> "Item already exists in list", details |-> <<>>]
    ELSE IF error.name = "CastError"
    THEN [status |-> 400, error |-> "Invalid ID format",
          details |-> <<"The provided ID is not a valid format">>]
    ELSE [status |-> 500, error |-> "Internal server error", details |-> <<>>]

\* what the store, the driver or the runtime can raise at any await of the
\* service: names, codes and messages of errors that are no ApiError
TransportMessages == {"connection closed", "operation timed out", "not primary"}
TransportErrors ==
    {ForeignError(n, 0, m) : n \in {"MongoNetworkError", "MongoServerSelectionError",
                                    "TypeError", "Error"},
                             m \in TransportMessages}
    \cup {ForeignError("MongoServerError", c, m) : c \in {13, 50}, m \in TransportMessages}

\* the errors each operation of the service passes to next(error)
Thrown(op) ==
    TransportErrors \cup
    CASE op = "add" ->
           {ConflictError("Item already exists in list"),
            NotFoundError("Movie not found"), NotFoundError("TV Show not found"),
            ForeignError("MongoServerError", 11000, "E11000 duplicate key error"),
            ForeignError("CastError", 0, "Cast to ObjectId failed")}
      [] op = "remove" -> {NotFoundError("Item not in list")}
      [] op = "list" ->
           {BadRequestError("Invalid cursor format"),
            ForeignError("CastError", 0, "Cast to ObjectId failed")}

ErrInit ==
    /\ ServiceAtRest
    /\ \E op \in {"add", "remove", "list"}, u \in Users :
          \E e \in Thrown(op) :
             http = [phase |-> "thrown", op |-> op, user |-> u, error |-> e]

\* controller catch -> next(error) -> errorHandler
HandleError ==
    /\ http.phase = "thrown"
    /\ http' = [phase |-> "sent", op |-> http.op, user |-> http.user, error |-> http.error,
                response |-> errorHandler(http.error)]
    /\ ServiceUntouched

\* the client reads the response; the exchange is over
EndExchange ==
    /\ http.phase = "sent"
    /\ http' = [phase |-> "closed", op |-> http.op, user |-> http.user,
                status |-> http.response.status]
    /\ ServiceUntouched

ErrNext == HandleError \/ EndExchange

ErrSpec == ErrInit /\ [][ErrNext]_vars

IsConflict(e) == e.name = "ConflictError"
IsDuplicateKey(e) == e.name = "MongoServerError" /\ e.code = 11000
IsNotFound(e) == e.name = "NotFoundError"
IsMalformedCursor(e) == e.name = "BadRequestError"
IsCastError(e) == e.name = "CastError"
Is(r, status, error) == r.status = status /\ r.error = error

\* the kinds the four named failures map to
NamedKinds(e, r) ==
    /\ (IsConflict(e) \/ IsDuplicateKey(e)) => Is(r, 409, "Item already exists in list")
    /\ IsNotFound(e) => /\ r.status = 404
                        /\ r.error \in {"Movie not found", "TV Show not found",
                                        "Item not in list"}
    /\ IsMalformedCursor(e) => Is(r, 400, "Invalid cursor format")

Named(e) == IsConflict(e) \/ IsDuplicateKey(e) \/ IsNotFound(e) \/ IsMalformedCursor(e)

\* the responses the handlers of the service send are the ones errorHandler
\* makes of the errors they throw
SameAsSent(e, r) ==
    \A known \in {ConflictResponse, DuplicateKeyResponse, MovieNotFound, TVShowNotFound,
                  ItemNotInList, InvalidCursor, InvalidId, StoreError} :
       (known.cause = e.name /\ (IsNotFound(e) => known.error = e.message)
        /\ (e.name = "MongoServerError" => IsDuplicateKey(e)))
          => Is(r, known.status, known.error)

\* C32 as stated: a duplicate add maps to 409 "Item already exists in list",
\* from the existence check and from the unique index alike; missing content
\* and a missing entry map to 404; a malformed cursor maps to 400; every other
\* error maps to 500 "Internal server error".
C32_OtherErrorsAre500 ==
    http.phase = "sent" =>
        /\ NamedKinds(http.error, http.response)
        /\ ~Named(http.error) => Is(http.response, 500, "Internal server error")

\* C32 amended: as above, except that a CastError (an id that is no ObjectId,
\* in the contentId of an add or in a cursor) maps to 400 "Invalid ID format";
\* every error that is none of these maps to 500 "Internal server error",
\* whatever its message.
C32_ErrorKinds ==
    http.phase = "sent" =>
        /\ NamedKinds(http.error, http.response)
        /\ IsCastError(http.error) => Is(http.response, 400, "Invalid ID format")
        /\ (~Named(http.error) /\ ~IsCastError(http.error))
              => Is(http.response, 500, "Internal server error")
        /\ SameAsSent(http.error, http.response)

\* an add whose contentId is no ObjectId has been answered 400
C32_Witness ==
    /\ http.phase = "sent"
    /\ http.op = "add"
    /\ IsCastError(http.error)
    /\ http.response.status = 400

-----------------------------------------------------------------------------
(* validate(listItemsQuerySchema, 'query') in front of getList (ValidSpec) *)

\* a query parameter that is not in the URL
Undefined == <<"undefined">>

NaN == [nan |-> TRUE, n |-> 0]
Number(n) == [nan |-> FALSE, n |-> n]

RECURSIVE SkipSpaces(_)
SkipSpaces(s) == IF s # <<>> /\ s[1] = " " THEN SkipSpaces(Tail(s)) ELSE s

RECURSIVE LeadingDigits(_)
LeadingDigits(s) ==
    IF s # <<>> /\ IsDigit(s[1]) THEN <<s[1]>> \o LeadingDigits(Tail(s)) ELSE <<>>

\* parseInt(val, 10): leading white space is skipped, one sign is read, then the
\* longest run of decimal digits; what follows the run is ignored, and NaN is
\* the result only when the run is empty
parseInt(val) ==
    LET s == SkipSpaces(val)
        signed == s # <<>> /\ s[1] \in {"-", "+"}
        body == IF signed THEN Tail(s) ELSE s
        ds == LeadingDigits(body)
    IN  IF ds = <<>> THEN NaN
        ELSE IF signed /\ s[1] = "-" THEN Number(0 - ParseNat(ds))
        ELSE Number(ParseNat(ds))

\* val ? parseInt(val, 10) : dflt  -- undefined and '' are falsy
ParsedOr(val, dflt) == IF val = Undefined \/ val = <<>> THEN Number(dflt) ELSE parseInt(val)

\* comparisons with NaN are false
Between(v, lo, hi) == ~v.nan /\ v.n >= lo /\ v.n <= hi
AtLeast(v, lo) == ~v.nan /\ v.n >= lo

Issue(path, message) == <<[path |-> path, message |-> message]>>

\* validate.ts 15-28: the result of listItemsQuerySchema.parse(req.query); the
\* issues come in the order of the keys of the schema
listItemsQuerySchema(query) ==
    LET page == ParsedOr(query.page, 1)
        limit == ParsedOr(query.limit, 10)
        issues ==
            (IF query.type \in {Undefined, <<"offset">>, <<"cursor">>} THEN <<>>
             ELSE Issue("type", "Invalid enum value"))
            \o (IF AtLeast(page, 1) THEN <<>>
                ELSE Issue("page", "page must be at least 1"))
            \o (IF Between(limit, 1, 100) THEN <<>>
                ELSE Issue("limit", "limit must be between 1 and 100"))
    IN  IF issues # <<>> THEN [ok |-> FALSE, issues |-> issues]
        ELSE [ok |-> TRUE,
              data |-> [type |-> IF query.type = Undefined THEN "offset" ELSE query.type[1],
                        page |-> page.n,
                        limit |-> limit.n,
                        cursor |-> IF query.cursor = Undefined THEN <<>> ELSE query.cursor]]

\* validate.ts 55-63: a ZodError is answered here, not by errorHandler
ValidationError(issues) ==
    [status |-> 400, error |-> "Validation error", details |-> issues]

\* the values of page and limit a client may put into the URL
RawNumbers ==
    {Undefined, <<>>, Str(0), Str(1), Str(2), Str(10), Str(100), Str(101),
     <<"-">> \o Str(1), <<"a", "b", "c">>, Str(2) \o <<"a", "b", "c">>,
     Str(1) \o <<".">> \o Str(5)}
RawTypes == {Undefined, <<"offset">>, <<"cursor">>, <<"bogus">>}
RawCursors == {Undefined, EncodeCursor(1, 1)}
ValidUser == <<"u">>

ValidInit ==
    /\ ServiceAtRest
    /\ \E t \in RawTypes, pg \in RawNumbers, lm \in RawNumbers, c \in RawCursors :
          http = [phase |-> "received", user |-> ValidUser,
                  query |-> [type |-> t, page |-> pg, limit |-> lm, cursor |-> c]]

\* validate.ts 44-68
Validate ==
    /\ http.phase = "received"
    /\ LET parsed == listItemsQuerySchema(http.query)
       IN  IF parsed.ok
           THEN http' = [phase |-> "validated", validatedQuery |-> parsed.data] @@ http
           ELSE http' = [phase |-> "sent", response |-> ValidationError(parsed.issues)] @@ http
    /\ ServiceUntouched

\* my-list-controller.ts 83-95: getList is called with the validated query
ListRequest(userId, q) ==
    [NoReq EXCEPT !.op = "list", !.user = userId, !.type = q.type, !.page = q.page,
                  !.limit = q.limit, !.cursor = q.cursor]

ControllerGetList ==
    /\ http.phase = "validated"
    /\ pc[1] = "idle"
    /\ started = 0
    /\ hits = NoHits
    /\ catalog = NoCatalog
    /\ Begin(1, ListRequest(http.user, http.validatedQuery), "list_get")

ValidNext ==
    \/ Validate
    \/ ControllerGetList
    \/ ListGet(1) \/ ListCount(1) \/ ListFind(1) \/ ListCursor(1) \/ ListSet(1)

ValidSpec == ValidInit /\ [][ValidNext]_vars

\* a decimal numeral: an optional sign, digits, an optional fraction
Numeric(text) ==
    LET body == IF text # <<>> /\ text[1] \in {"-", "+"} THEN Tail(text) ELSE text
        ds == LeadingDigits(body)
        rest == SubSeq(body, Len(ds) + 1, Len(body))
    IN  /\ ds # <<>>
        /\ \/ rest = <<>>
           \/ rest[1] = "." /\ AllDigits(Tail(rest))
NonNumeric(text) == text # Undefined /\ text # <<>> /\ ~Numeric(text)
ValueOf(text) == parseInt(text).n

OutOfRange(query) ==
    \/ Numeric(query.page) /\ query.page # Undefined /\ ValueOf(query.page) < 1
    \/ Numeric(query.limit) /\ query.limit # Undefined
          /\ (ValueOf(query.limit) < 1 \/ ValueOf(query.limit) > 100)

NotANumber(query) == NonNumeric(query.page) \/ NonNumeric(query.limit)

Rejected == http.phase = "sent" /\ http.response.status = 400
               /\ http.response.error = "Validation error"
NothingAccessed == store = {} /\ cache = <<>> /\ pc[1] = "idle" /\ started = 0

\* the query with every omitted parameter written out
SpelledOut(query) ==
    [type |-> IF query.type = Undefined THEN <<"offset">> ELSE query.type,
     page |-> IF query.page = Undefined THEN Str(1) ELSE query.page,
     limit |-> IF query.limit = Undefined THEN Str(10) ELSE query.limit,
     cursor |-> query.cursor]

DefaultsApplied ==
    http.phase = "validated" =>
        /\ http.query.type = Undefined => http.validatedQuery.type = "offset"
        /\ http.query.page = Undefined => http.validatedQuery.page = 1
        /\ http.query.limit = Undefined => http.validatedQuery.limit = 10
        /\ LET spelled == listItemsQuerySchema(SpelledOut(http.query))
           IN  /\ spelled.ok
               /\ KeyOf(ListRequest(http.user, spelled.data))
                     = KeyOf(ListRequest(http.user, http.validatedQuery))
               /\ pc[1] = "done" /\ res[1].status = 200 /\ cacheUp
                     => DOMAIN cache = {KeyOf(ListRequest(http.user, spelled.data))}

\* a rejected request has touched neither cache nor store, and never will
RejectedBeforeAccess == (http.phase \in {"received", "sent"}) => NothingAccessed

\* C33: a list request with page < 1, limit < 1, limit > 100 or a page or limit
\* that is no number is answered 400 "Validation error" before the cache or
\* the store is touched; omitted page, limit and type default to 1, 10 and
\* offset, and the request that relies on the defaults uses the cache key of
\* the request that spells them out.
C33_ValidationRejects ==
    /\ RejectedBeforeAccess
    /\ DefaultsApplied
    /\ (http.phase # "received" /\ (OutOfRange(http.query) \/ NotANumber(http.query)))
          => Rejected

\* the parts of C33 that do not depend on how a number is recognised
C33_RangeAndDefaults ==
    /\ RejectedBeforeAccess
    /\ DefaultsApplied
    /\ (http.phase # "received" /\ OutOfRange(http.query)) => Rejected

-----------------------------------------------------------------------------
(* The snapshot an add stores of a TV show (SnapSpec) *)

MaxEpisodes == 2

\* episodes of one season: number, release date, director, cast
Episodes ==
    [episodeNumber : {1, 2}, seasonNumber : {1}, releaseDate : {1, 2},
     director : {"d1", "d2"}, actors : {<<"a">>, <<"b", "a">>, <<"c", "b">>}]

\* tvShow.episodes.flatMap((ep) => ep.actors)
RECURSIVE FlatActors(_)
FlatActors(episodes) ==
    IF episodes = <<>> THEN <<>> ELSE episodes[1].actors \o FlatActors(Tail(episodes))

Contains(s, x) == \E i \in 1..Len(s) : s[i] = x

\* [...new Set(xs)]: a Set iterates in insertion order, and adding a value it
\* holds already changes nothing
RECURSIVE SpreadSet(_)
SpreadSet(xs) ==
    IF xs = <<>> THEN <<>>
    ELSE LET front == SpreadSet(SubSeq(xs, 1, Len(xs) - 1))
         IN  IF Contains(front, xs[Len(xs)]) THEN front ELSE Append(front, xs[Len(xs)])

\* my-list-service.ts 96-106; now stands for new Date(), "" for undefined
TVShowContentData(tvShow, now) ==
    LET none == tvShow.episodes = <<>>
    IN  [releaseDate |-> IF none THEN now ELSE tvShow.episodes[1].releaseDate,
         director |-> IF none THEN "" ELSE tvShow.episodes[1].director,
         actors |-> SpreadSet(FlatActors(tvShow.episodes))]

SnapUser == <<"u">>

\* the schema of a TV show admits no empty episodes array, and no order of it
SnapInit ==
    /\ \E n \in 1..MaxEpisodes :
          \E episodes \in [1..n -> Episodes] :
             catalog = [phase |-> "stored", tvShow |-> [id |-> "s1", episodes |-> episodes]]
    /\ store = {}
    /\ nextId = 1
    /\ clock = 1
    /\ ver = [u \in Users |-> 0]
    /\ acked = [u \in Users |-> 0]
    /\ cache = <<>>
    /\ cacheUp = TRUE
    /\ outage = FALSE
    /\ hist = [u \in Users |-> NoHist]
    /\ pc = [p \in Procs |-> "idle"]
    /\ req = [p \in Procs |-> NoReq]
    /\ loc = [p \in Procs |-> NoLoc]
    /\ res = [p \in Procs |-> NoRes]
    /\ started = 0
    /\ hits = NoHits
    /\ serial = TRUE
    /\ budget = 0
    /\ walk = NoWalk
    /\ keyq = NoKeyq
    /\ codec = NoCodec
    /\ pageq = NoPageq
    /\ http = NoHttp

\* my-list-service.ts 92-106: TVShow.findById(contentId).lean() and contentData
SnapLookup ==
    /\ catalog.phase = "stored"
    /\ catalog' = [phase |-> "found", tvShow |-> catalog.tvShow,
                   contentData |-> TVShowContentData(catalog.tvShow, clock)]
    /\ UNCHANGED <<store, nextId, clock, ver, acked, cache, cacheUp, outage, hist, pc, req,
                   loc, res, started, serial, budget, walk, keyq, codec, pageq, http, hits>>

\* my-list-service.ts 110-121: MyListItem.create with the denormalized data
SnapCreate ==
    /\ catalog.phase = "found"
    /\ store' = store \cup {[id |-> nextId, user |-> SnapUser, content |-> catalog.tvShow.id,
                             ctype |-> "tvshow", addedAt |-> clock,
                             release_date |-> catalog.contentData.releaseDate,
                             director |-> catalog.contentData.director,
                             actors |-> catalog.contentData.actors]}
    /\ nextId' = nextId + 1
    /\ catalog' = [phase |-> "created", tvShow |-> catalog.tvShow]
    /\ UNCHANGED <<clock, ver, acked, cache, cacheUp, outage, hist, pc, req,
                   loc, res, started, serial, budget, walk, keyq, codec, pageq, http, hits>>

SnapNext == SnapLookup \/ SnapCreate

SnapSpec == SnapInit /\ [][SnapNext]_vars

\* episode order: by season, then by number within the season
EpisodeBefore(a, b) ==
    \/ a.seasonNumber < b.seasonNumber
    \/ a.seasonNumber = b.seasonNumber /\ a.episodeNumber < b.episodeNumber

\* the episodes no other episode comes before
FirstEpisodes(episodes) ==
    {episodes[i] : i \in {j \in 1..Len(episodes) :
                             \A k \in 1..Len(episodes) : ~EpisodeBefore(episodes[k], episodes[j])}}

FirstIndex(s, x) == CHOOSE i \in 1..Len(s) : s[i] = x /\ \A j \in 1..(i - 1) : s[j] # x

\* every actor of every episode once, ordered by first appearance
UnionInOrderOfAppearance(actors, episodes) ==
    LET all == FlatActors(episodes)
    IN  /\ \A i, j \in 1..Len(actors) : actors[i] = actors[j] => i = j
        /\ {actors[i] : i \in 1..Len(actors)} = {all[i] : i \in 1..Len(all)}
        /\ \A i, j \in 1..Len(actors) :
              i < j => FirstIndex(all, actors[i]) < FirstIndex(all, actors[j])

ActorsOfAllEpisodes ==
    \A e \in store : UnionInOrderOfAppearance(e.actors, catalog.tvShow.episodes)

\* date and director are those of the episode stored first in the array
FromStoredFirst ==
    \A e \in store : /\ e.release_date = catalog.tvShow.episodes[1].releaseDate
                     /\ e.director = catalog.tvShow.episodes[1].director

\* what holds of the snapshot whatever the order of the array
SnapshotOfStoredOrder == ActorsOfAllEpisodes /\ FromStoredFirst

\* C34: the snapshot an add stores of a TV show has the releaseDate and the
\* director of the first episode in episode order (season, then number), and
\* its actors are the actors of all episodes, each once, in order of first
\* appearance.
C34_TvShowSnapshot ==
    \A e \in store :
       /\ \E first \in FirstEpisodes(catalog.tvShow.episodes) :
             e.release_date = first.releaseDate /\ e.director = first.director
       /\ UnionInOrderOfAppearance(e.actors, catalog.tvShow.episodes)

-----------------------------------------------------------------------------
(* The chain of a route: authMiddleware, rate limiter, validate, controller
   (PipeSpec) *)

MaxExchanges == 2

\* env.RATE_LIMIT_MAX_REQUESTS
RATE_LIMIT_MAX_REQUESTS == 100
ReadMax == RATE_LIMIT_MAX_REQUESTS * 10
WriteMax == RATE_LIMIT_MAX_REQUESTS

LowerCase == {"a", "b", "c", "d", "e", "f", "g", "h", "i", "j", "k", "l", "m",
              "n", "o", "p", "q", "r", "s", "t", "u", "v", "w", "x", "y", "z"}
UpperCase == {"A", "B", "C", "D", "E", "F", "G", "H", "I", "J", "K", "L", "M",
              "N", "O", "P", "Q", "R", "S", "T", "U", "V", "W", "X", "Y", "Z"}

\* a test that takes any non-empty text
userIdAny(userId) == Len(userId) >= 1

\* /^[a-zA-Z0-9_-]{1,50}$/.test(userId)
userIdRegex(userId) ==
    /\ Len(userId) >= 1 /\ Len(userId) <= 50
    /\ \A i \in 1..Len(userId) :
          userId[i] \in LowerCase \cup UpperCase \cup {"_", "-"} \/ IsDigit(userId[i])

\* the values of the x-user-id header a client may send: none, the empty
\* string, the two users, a value with a character outside the class, and a
\* value of 51 characters
Header51 == [i \in 1..51 |-> "a"]
Headers == {Undefined, <<>>, <<"u", " ", "1">>, Header51} \cup Users

\* the address the request comes from
Ip == <<":", ":", "1">>

Unauthorized(detail) == [status |-> 401, error |-> "Unauthorized", details |-> <<detail>>]
TooManyRequests ==
    [status |-> 429, error |-> "Too many requests",
     details |-> <<"Rate limit exceeded. Please try again later.">>]

\* what a request of the method carries besides the header
Payloads(method) ==
    CASE method = "GET" ->
           {[type |-> Undefined, page |-> pg, limit |-> Undefined, cursor |-> Undefined] :
               pg \in {Undefined, Str(0)}}
           \cup {[type |-> <<"cursor">>, page |-> Undefined, limit |-> Undefined,
                   cursor |-> Undefined]}
      [] method = "POST" ->
           AddInputs \cup {[content |-> "", ctype |-> "movie"],
                           [content |-> "m1", ctype |-> "series"]}
      [] method = "DELETE" -> {[content |-> c] : c \in RemoveInputs}

LimiterKeys == Users \cup {Ip}

\* the hits a window has seen already when the model starts
PipeInit ==
    /\ \E r, w \in {0, 1} :
          hits = [read |-> [k \in LimiterKeys |->
                               IF k = <<"u">> THEN r * (ReadMax - 1) ELSE r],
                  write |-> [k \in LimiterKeys |->
                               IF k = <<"u">> THEN w * (WriteMax - 1) ELSE w]]
    /\ http = [phase |-> "none", n |-> 0]
    /\ store = {}
    /\ nextId = 1
    /\ clock = 1
    /\ ver = [u \in Users |-> 0]
    /\ acked = [u \in Users |-> 0]
    /\ cache = <<>>
    /\ cacheUp = TRUE
    /\ outage = FALSE
    /\ hist = [u \in Users |-> NoHist]
    /\ pc = [p \in Procs |-> "idle"]
    /\ req = [p \in Procs |-> NoReq]
    /\ loc = [p \in Procs |-> NoLoc]
    /\ res = [p \in Procs |-> NoRes]
    /\ started = 0
    /\ serial = TRUE
    /\ budget = 0
    /\ walk = NoWalk
    /\ keyq = NoKeyq
    /\ codec = NoCodec
    /\ pageq = NoPageq
    /\ catalog = NoCatalog

\* everything but the exchange and the limiters' stores
BehindTheChain ==
    UNCHANGED <<store, nextId, clock, ver, acked, cache, cacheUp, outage, hist, pc, req,
                loc, res, started, serial, budget, walk, keyq, codec, pageq, catalog>>

\* a request reaches the router
Arrive ==
    /\ http.phase = "none"
    /\ http.n < MaxExchanges
    /\ \E method \in {"GET", "POST", "DELETE"}, header \in Headers :
          \E payload \in Payloads(method) :
             http' = [phase |-> "arrived", n |-> http.n, method |-> method,
                      header |-> header, payload |-> payload]
    /\ BehindTheChain
    /\ UNCHANGED hits

\* auth.ts 20-49, mounted by router.use before every route
AuthMiddleware ==
    /\ http.phase = "arrived"
    /\ http' = IF http.header = Undefined \/ http.header = <<>>
               THEN [phase |-> "sent",
                     response |-> Unauthorized("Missing or invalid x-user-id header")] @@ http
               ELSE IF ~userIdRegex(http.header)
               THEN [phase |-> "sent",
                     response |-> Unauthorized("Invalid user ID format")] @@ http
               ELSE [phase |-> "authenticated", user |-> http.header] @@ http
    /\ BehindTheChain
    /\ UNCHANGED hits

\* a key generator that keys every request by its address
keyByAddress(header) == Ip

\* rate-limit.ts 9-15
keyGenerator(header) == IF header # Undefined THEN header ELSE Ip

\* rateLimit({max, keyGenerator}): the store counts the hit of the key, and a
\* total above max is answered 429
RateLimit(limiter, max, passed) ==
    LET key == keyGenerator(http.header)
        totalHits == hits[limiter][key] + 1
    IN  /\ hits' = [hits EXCEPT ![limiter][key] = totalHits]
        /\ http' = IF totalHits > max
                   THEN [phase |-> "sent", response |-> TooManyRequests] @@ http
                   ELSE [phase |-> passed] @@ http
        /\ BehindTheChain

\* router.get('/', readRateLimiter, ...)
readRateLimiter ==
    /\ http.phase = "authenticated"
    /\ http.method = "GET"
    /\ RateLimit("read", ReadMax, "limited")

\* router.post('/', writeRateLimiter, ...), router.delete('/:contentId', writeRateLimiter, ...)
writeRateLimiter ==
    /\ http.phase = "authenticated"
    /\ http.method \in {"POST", "DELETE"}
    /\ RateLimit("write", WriteMax, "limited")

\* windowMs has passed: the stores start again
WindowEnds ==
    /\ http.phase = "none"
    /\ \E l \in {"read", "write"}, k \in LimiterKeys : hits[l][k] # 0
    /\ hits' = [l \in {"read", "write"} |-> [k \in LimiterKeys |-> 0]]
    /\ BehindTheChain
    /\ UNCHANGED http

\* validate(listItemsQuerySchema, 'query')
ValidateQuery ==
    /\ http.phase = "limited"
    /\ http.method = "GET"
    /\ LET parsed == listItemsQuerySchema(http.payload)
       IN  http' = IF parsed.ok
                   THEN [phase |-> "validated", validatedQuery |-> parsed.data] @@ http
                   ELSE [phase |-> "sent",
                         response |-> ValidationError(parsed.issues)] @@ http
    /\ BehindTheChain
    /\ UNCHANGED hits

\* validate(addToListSchema, 'body') and validate(contentIdParamSchema, 'params')
ValidateContent ==
    /\ http.phase = "limited"
    /\ http.method \in {"POST", "DELETE"}
    /\ LET issues ==
               (IF http.payload.content # "" THEN <<>>
                ELSE Issue("contentId", "contentId is required"))
               \o (IF http.method = "DELETE" \/ http.payload.ctype \in {"movie", "tvshow"}
                   THEN <<>>
                   ELSE Issue("contentType", "Invalid enum value"))
       IN  http' = IF issues = <<>>
                   THEN [phase |-> "validated"] @@ http
                   ELSE [phase |-> "sent", response |-> ValidationError(issues)] @@ http
    /\ BehindTheChain
    /\ UNCHANGED hits

\* MyListController: the service is called with req.userId and the validated input
Controller ==
    /\ http.phase = "validated"
    /\ pc[1] = "idle"
    /\ CASE http.method = "GET" ->
              Begin(1, ListRequest(http.user, http.validatedQuery), "list_get")
         [] http.method = "POST" ->
              Begin(1, [NoReq EXCEPT !.op = "add", !.user = http.user,
                                     !.content = http.payload.content,
                                     !.ctype = http.payload.ctype],
                    "add_check")
         [] http.method = "DELETE" ->
              Begin(1, [NoReq EXCEPT !.op = "remove", !.user = http.user,
                                     !.content = http.payload.content],
                    "rem_delete")

\* res.status(...).json(...) of the controller, or errorHandler
SendResponse ==
    /\ http.phase = "validated"
    /\ pc[1] = "done"
    /\ http' = [phase |-> "sent",
                response |-> [status |-> res[1].status, error |-> res[1].error,
                              details |-> <<>>]] @@ http
    /\ pc' = [pc EXCEPT ![1] = "idle"]
    /\ UNCHANGED <<store, nextId, clock, ver, acked, cache, cacheUp, outage, hist, req,
                   loc, res, started, serial, budget, walk, keyq, codec, pageq, catalog,
                   hits>>

\* the exchange is over; its outcome stays on record until the next arrives
Close ==
    /\ http.phase = "sent"
    /\ http' = [phase |-> "none", n |-> http.n + 1]
    /\ BehindTheChain
    /\ UNCHANGED hits

PipeNext ==
    \/ Arrive \/ AuthMiddleware \/ readRateLimiter \/ writeRateLimiter \/ WindowEnds
    \/ ValidateQuery \/ ValidateContent \/ Controller \/ SendResponse \/ Close
    \/ AddCheck(1) \/ AddLookup(1) \/ AddCreate(1) \/ RemDelete(1)
    \/ InvScan(1) \/ InvDel(1)
    \/ ListGet(1) \/ ListCount(1) \/ ListFind(1) \/ ListCursor(1) \/ ListSet(1)

PipeSpec == PipeInit /\ [][PipeNext]_vars

\* the header values that are missing or do not match the pattern of a user id
BadHeaders == {Undefined, <<>>, <<"u", " ", "1">>, Header51}

Is401 == http.phase = "sent" /\ http.response.status = 401
            /\ http.response.error = "Unauthorized"

\* authMiddleware answers, and nothing behind it has run or runs
RefusedAtTheDoor ==
    (http.phase = "arrived" /\ http.header \in BadHeaders)
       => /\ Is401'
          /\ hits' = hits
          /\ store' = store /\ cache' = cache
          /\ pc' = pc /\ started' = started /\ hist' = hist

\* C35: a request without x-user-id, or with one that does not match
\* [a-zA-Z0-9_-]{1,50}, is answered 401 Unauthorized before the rate limiter,
\* validation and the service run: no limiter counts it, and neither the store
\* nor the cache is read or changed.
C35_UnauthorizedBeforeAll ==
    /\ [][RefusedAtTheDoor]_vars
    /\ []((http.phase \notin {"none", "arrived"} /\ http.header \in BadHeaders)
             => (Is401 /\ pc[1] = "idle"))

\* a header of 51 characters has been refused while the list holds an entry
\* and the limiters hold hits of earlier requests
C35_Witness ==
    /\ Is401
    /\ http.header = Header51
    /\ store # {}
    /\ \E k \in Users : hits.write[k] > 0

-----------------------------------------------------------------------------
(* Budgets of the rate limiters (PipeSpec) *)

LimitOfClass(l) == IF l = "read" THEN 1000 ELSE 100
ClassOf(method) == IF method = "GET" THEN "read" ELSE "write"
Remaining(h, l, k) == Max(0, LimitOfClass(l) - h[l][k])
Is429 == http.phase = "sent" /\ http.response.status = 429

WindowReset == \A l \in {"read", "write"}, k \in LimiterKeys : hits'[l][k] = 0

\* an authenticated request passing its limiter
Counted ==
    LET l == ClassOf(http.method)
        k == http.user
    IN  /\ hits'[l][k] = hits[l][k] + 1
        /\ Remaining(hits, l, k) > 0 => Remaining(hits', l, k) = Remaining(hits, l, k) - 1
        /\ \A l2 \in {"read", "write"}, k2 \in LimiterKeys :
              (l2 # l \/ k2 # k) => hits'[l2][k2] = hits[l2][k2]
        /\ IF Remaining(hits, l, k) = 0
           THEN Is429' /\ pc' = pc /\ store' = store /\ cache' = cache /\ started' = started
           ELSE http'.phase = "limited"

BudgetStep ==
    /\ (http.phase = "authenticated" /\ http' # http) => Counted
    /\ (hits' # hits /\ ~WindowReset) => http.phase = "authenticated"

\* C36: the limiters keep one counter per user and class of operation within a
\* window: a GET takes exactly one from the read budget (1000) of its user, a
\* POST or DELETE exactly one from the write budget (100) of its user, no
\* other counter moves, and a request beyond the budget is answered 429 and
\* does not reach the service.
C36_BudgetPerUserAndClass ==
    /\ [][BudgetStep]_vars
    /\ [](Is429 => pc[1] = "idle")

\* the 101st write of u in the window is refused; the other user's write
\* budget and u's read budget are what they were
C36_Witness ==
    /\ Is429
    /\ http.method = "DELETE"
    /\ http.user = <<"u">>
    /\ hits.write[<<"u">>] = 101
    /\ hits.write[<<"u", "1">>] = 1
    /\ hits.read[<<"u">>] = 0

-----------------------------------------------------------------------------
(* A cursor walk through getList with adds and removes between its steps
   (StrollSpec) *)

MaxStrollMutations == 2
MaxStrollLimit == 2

\* the cursor requests a client of the list may have made before the walk
StrollEarlier(s, limit) ==
    {ListRequest(WalkUser, [type |-> "cursor", page |-> 1, limit |-> limit, cursor |-> c]) :
        c \in {<<>>} \cup {EncodeCursor(e.addedAt, e.id) : e \in EntriesOf(s, WalkUser)}}

\* kept: the entries present since the walk began; last: the entry the cursor
\* in hand was derived from; orphaned: that entry has been removed; survived:
\* a step of the walk has used such a cursor
StrollInit ==
    /\ \E f \in [1..MaxWalkEntries -> 0..MaxClock] :
          store = {WalkEntry(i, WalkUser, f[i]) : i \in {j \in 1..MaxWalkEntries : f[j] > 0}}
    /\ \E limit \in 1..MaxStrollLimit :
          /\ walk = [kept |-> {e.id : e \in store}, muts |-> 0, orphaned |-> FALSE,
                     survived |-> FALSE, last |-> 0] @@ NewWalk(limit)
          /\ cache \in {<<>>, CachedPages(store, StrollEarlier(store, limit))}
    /\ nextId = MaxWalkEntries + 1
    /\ clock = MaxClock
    /\ ver = [u \in Users |-> 0]
    /\ acked = [u \in Users |-> 0]
    /\ cacheUp = TRUE
    /\ outage = FALSE
    /\ hist = [u \in Users |-> NoHist]
    /\ pc = [p \in Procs |-> "idle"]
    /\ req = [p \in Procs |-> NoReq]
    /\ loc = [p \in Procs |-> NoLoc]
    /\ res = [p \in Procs |-> NoRes]
    /\ started = 0
    /\ serial = TRUE
    /\ budget = 0
    /\ keyq = NoKeyq
    /\ codec = NoCodec
    /\ pageq = NoPageq
    /\ http = NoHttp
    /\ catalog = NoCatalog
    /\ hits = NoHits

\* GET ?type=cursor&limit=..&cursor=<the nextCursor of the page before>
StrollAsk ==
    /\ pc[1] = "idle"
    /\ ~walk.cdone
    /\ Begin(1, ListRequest(WalkUser, [type |-> "cursor", page |-> 1, limit |-> walk.limit,
                                       cursor |-> walk.cursor]),
             "list_get")

StrollRest ==
    UNCHANGED <<store, nextId, clock, ver, acked, cache, cacheUp, outage, hist, req,
                loc, res, started, serial, budget, keyq, codec, pageq, http, catalog, hits>>

\* the client reads the page and keeps its nextCursor
StrollTake ==
    /\ pc[1] = "done"
    /\ req[1].op = "list"
    /\ walk' = IF res[1].status # 200
               THEN [walk EXCEPT !.cdone = TRUE, !.cfailed = TRUE]
               ELSE [walk EXCEPT !.cseen = @ \o [i \in 1..Len(res[1].data) |->
                                                    CastId(res[1].data[i].id)],
                                 !.cpages = @ + 1,
                                 !.cursor = res[1].pagination.nextCursor,
                                 !.chasNext = res[1].pagination.hasNextPage,
                                 !.cdone = (res[1].pagination.nextCursor = <<>>),
                                 !.orphaned = FALSE,
                                 !.survived = @ \/ walk.orphaned,
                                 !.last = IF res[1].data = <<>> THEN 0
                                          ELSE CastId(res[1].data[Len(res[1].data)].id)]
    /\ pc' = [pc EXCEPT ![1] = "idle"]
    /\ StrollRest

\* between two steps of the walk: POST /api/my-list or DELETE /api/my-list/:id
StrollMutate ==
    /\ pc[1] = "idle"
    /\ walk.cpages >= 1 /\ ~walk.cdone
    /\ walk.muts < MaxStrollMutations
    /\ \/ \E c \in Movies \cup Shows :
             Begin(1, [NoReq EXCEPT !.op = "add", !.user = WalkUser, !.content = c,
                                    !.ctype = TypeOf(c)],
                   "add_check")
       \/ \E c \in RemoveInputs :
             Begin(1, [NoReq EXCEPT !.op = "remove", !.user = WalkUser, !.content = c],
                   "rem_delete")

\* the mutation has been answered
StrollMutated ==
    /\ pc[1] = "done"
    /\ req[1].op \in {"add", "remove"}
    /\ walk' = [walk EXCEPT !.muts = @ + 1,
                            !.kept = @ \cap {e.id : e \in store},
                            !.orphaned = @ \/ (walk.last # 0
                                                /\ walk.last \notin {e.id : e \in store})]
    /\ pc' = [pc EXCEPT ![1] = "idle"]
    /\ StrollRest

StrollNext ==
    \/ StrollAsk \/ StrollTake \/ StrollMutate \/ StrollMutated
    \/ ListGet(1) \/ ListCursor(1) \/ ListSet(1)
    \/ AddCheck(1) \/ AddLookup(1) \/ AddCreate(1) \/ RemDelete(1)
    \/ InvScan(1) \/ InvDel(1)

StrollSpec == StrollInit /\ [][StrollNext]_vars

\* the same walk with Redis failing and recovering at any time
StrollFaultNext == StrollNext \/ CacheFail \/ CacheRecover

StrollFaultSpec == StrollInit /\ [][StrollFaultNext]_vars

Times(s, x) == Cardinality({i \in 1..Len(s) : s[i] = x})

\* C37: in a forward cursor walk with a fixed limit, with adds and removes of
\* the user between its steps, no entry is returned twice, every entry that
\* was there from the first step to the last has been returned exactly once
\* when the walk ends, and no step of the walk fails, the one whose cursor was
\* derived from a removed entry included.
C37_WalkUnderMutation ==
    /\ \A i, j \in 1..Len(walk.cseen) : walk.cseen[i] = walk.cseen[j] => i = j
    /\ ~walk.cfailed
    /\ walk.cdone => \A id \in walk.kept : Times(walk.cseen, id) = 1

\* a walk has ended after a step whose cursor came from an entry removed in
\* between, and that step returned an entry that was there throughout
C37_Witness ==
    /\ walk.cdone
    /\ walk.survived
    /\ walk.cpages >= 2
    /\ walk.last \in walk.kept

-----------------------------------------------------------------------------
(* Concurrent removes of one entry (UnlistSpec) *)

\* the slots serving DELETE /api/my-list/:contentId for the pair
Unlisters == {p \in Procs : req[p].op = "remove"}

\* the entry of (user, content) is in the list, possibly next to the same
\* content in the other user's list; 2 or 3 removes of the pair have arrived
UnlistInit ==
    /\ \E userId \in Users, c \in RemoveInputs, other \in BOOLEAN, n \in 2..3,
          rs \in SUBSET RaceInputs :
          LET mine == [id |-> 1, user |-> userId, content |-> c,
                       ctype |-> TypeOf(c), addedAt |-> 1]
              theirs == {[id |-> 2, user |-> u, content |-> c,
                          ctype |-> TypeOf(c), addedAt |-> 1] :
                            u \in IF other THEN Users \ {userId} ELSE {}}
          IN  /\ store = {mine} \cup theirs
              /\ req = [p \in Procs |->
                          IF p <= n THEN [NoReq EXCEPT !.op = "remove", !.user = userId,
                                                       !.content = c]
                          ELSE NoReq]
              /\ pc = [p \in Procs |-> IF p <= n THEN "rem_delete" ELSE "idle"]
              /\ loc = [p \in Procs |-> IF p <= n THEN [NoLoc EXCEPT !.ack0 = 1] ELSE NoLoc]
              /\ ver = [u \in Users |-> Cardinality(EntriesOf(store, u))]
              /\ acked = [u \in Users |-> Cardinality(EntriesOf(store, u))]
              /\ hist = [u \in Users |->
                           [NoHist EXCEPT !.owned = {IdStr(e.id) : e \in EntriesOf(store, u)}]]
              /\ cache = CachedPages(store, rs)
              /\ started = n
              /\ budget = n
    /\ nextId = 3
    /\ clock = 1
    /\ cacheUp = TRUE
    /\ outage = FALSE
    /\ res = [p \in Procs |-> NoRes]
    /\ serial = FALSE
    /\ walk = NoWalk
    /\ keyq = NoKeyq
    /\ codec = NoCodec
    /\ pageq = NoPageq
    /\ http = NoHttp
    /\ catalog = NoCatalog
    /\ hits = NoHits

UnlistNext ==
    \/ \E p \in Procs : RemDelete(p) \/ InvScan(p) \/ InvDel(p)
    \/ CacheFail \/ CacheRecover

UnlistSpec == UnlistInit /\ [][UnlistNext]_vars

Unlisted == {p \in Unlisters : pc[p] = "done" /\ res[p].status = 200}
Refused == {p \in Unlisters : pc[p] = "done" /\ res[p] = ItemNotInList}
\* the calls that have entered invalidateUserCache
Sweepers == {p \in Unlisters : pc[p] \in {"inv_scan", "inv_del"} \/ loc[p].sweep # "none"}
UnlistPair == FindOne(store, req[1].user, req[1].content)

\* C38: of N >= 2 concurrent removes of one existing (user, content), exactly
\* one succeeds and the N-1 others fail with NotFound, the entry is gone
\* afterwards, and only the call that succeeds runs an invalidation sweep.
C38_OneRemoveWins ==
    /\ Cardinality(Unlisted) <= 1
    /\ Cardinality(Sweepers) <= 1
    /\ Unlisted \subseteq Sweepers
    /\ Refused \cap Sweepers = {}
    /\ Refused # {} => UnlistPair = {}
    /\ (\A p \in Unlisters : pc[p] = "done")
          => /\ Cardinality(Unlisted) = 1
             /\ Refused = Unlisters \ Unlisted
             /\ Sweepers = Unlisted
             /\ UnlistPair = {}

\* three removes have answered: the second to arrive won, and its sweep
\* emptied a cache that held pages of the user
C38_Witness ==
    /\ Cardinality(Unlisters) = 3
    /\ \A p \in Unlisters : pc[p] = "done"
    /\ res[2].status = 200
    /\ loc[2].sweep = "swept"
    /\ hist[req[2].user].swept # {}

-----------------------------------------------------------------------------
(* What a list call may change (CountSpec, Spec, FaultSpec) *)

\* slot p, serving a list call, takes this step
ListStepOf(p) ==
    /\ req[p].op = "list"
    /\ InFlight(p)
    /\ pc'[p] # pc[p] \/ loc'[p] # loc[p]

SameAt(k) == (k \in DOMAIN cache <=> k \in DOMAIN cache')
                /\ (k \in DOMAIN cache => cache'[k] = cache[k])

ListLeavesStore ==
    \A p \in Procs : ListStepOf(p) => (store' = store /\ nextId' = nextId /\ ver' = ver)

ListWritesOwnKeyOnly ==
    \A p \in Procs :
       ListStepOf(p) => \A k \in (DOMAIN cache) \cup (DOMAIN cache') :
                           k # KeyOf(req[p]) => SameAt(k)

\* a hit is answered from the cache lookup, before any query is issued
HitWithoutQuery ==
    \A p \in Procs :
       (ListReturns(p) /\ res'[p].xcache = "HIT")
          => (pc[p] = "list_get" /\ loc[p].total = -1 /\ ~loc[p].found
              /\ loc[p].result = NoPage)

\* C39: a list call never changes the store, whether it ends in a hit, a miss
\* or a failure; on a hit it issues no store query; and the only thing it may
\* change is the cache key derived from its own parameters.
C39_ListChangesOwnKeyOnly ==
    [][ListLeavesStore /\ ListWritesOwnKeyOnly /\ HitWithoutQuery]_vars

\* a list call that missed has written its key next to another key, with
\* entries in the store
C39_Witness ==
    \E p \in Procs :
        /\ req[p].op = "list" /\ pc[p] = "done"
        /\ res[p].xcache = "MISS"
        /\ KeyOf(req[p]) \in DOMAIN cache
        /\ \E k \in DOMAIN cache : k # KeyOf(req[p])
        /\ store # {}

-----------------------------------------------------------------------------
(* The sweep while Redis may fail (SweepLiveSpec) *)

\* the sweep of SweepSpec with Redis commands that may be rejected
SweepFaultNext == SweepNext \/ CacheFail \/ CacheRecover

\* every awaited Redis command is settled, with a reply or with an error, and
\* the event loop then resumes invalidateUserCache
SweepLiveSpec ==
    SweepInit /\ [][SweepFaultNext]_vars /\ WF_vars(InvScan(1)) /\ WF_vars(InvDel(1))

Sweeping(p) == pc[p] \in {"inv_scan", "inv_del"}

\* the keys of the sweeping user the scan of the current cursor replies with
ScanReply(p) ==
    {k \in DOMAIN cache : Bucket(k) = loc[p].cursor
                            /\ GlobMatch(getUserCachePattern(req[p].user), k)}

\* the scan is repeated until the cursor it returns is the start value
ScanUntilCursorReturns ==
    \A p \in Procs :
       (pc[p] = "inv_scan" /\ cacheUp /\ loc'[p] # loc[p])
          => /\ (loc[p].cursor + 1) % ScanBuckets # 0
                   => /\ pc'[p] = "inv_scan"
                      /\ loc'[p].cursor = (loc[p].cursor + 1) % ScanBuckets
                      /\ loc'[p].keysToDelete = loc[p].keysToDelete \cup ScanReply(p)
             /\ pc'[p] = "inv_del"
                   => /\ loc'[p].cursor = 0
                      /\ loc'[p].keysToDelete = loc[p].keysToDelete \cup ScanReply(p)
                      /\ loc'[p].keysToDelete # {}
             /\ pc'[p] = "done"
                   => /\ (loc[p].cursor + 1) % ScanBuckets = 0
                      /\ loc[p].keysToDelete \cup ScanReply(p) = {}
             /\ cache' = cache

\* the collected keys go in one delete, and nothing else leaves the cache
OneBulkDelete ==
    \A p \in Procs :
       (pc[p] = "inv_del" /\ pc'[p] # "inv_del")
          => /\ pc'[p] = "done"
             /\ loc[p].keysToDelete # {}
             /\ cache' = IF cacheUp THEN Without(cache, loc[p].keysToDelete) ELSE cache

\* a failed scan or delete ends the sweep and the mutation answers as after a
\* full sweep
ReturnsNormally ==
    \A p \in Procs :
       (Sweeping(p) /\ pc'[p] = "done")
          => /\ loc'[p].sweep = IF cacheUp THEN "swept" ELSE "failed"
             /\ res'[p] = MutationResponse(p, IF loc[p].items = <<>> THEN 0
                                              ELSE loc[p].items[1])
             /\ res'[p].status \in {200, 201}
             /\ store' = store

\* C40: the sweep ends and raises nothing: the scan is repeated until its
\* cursor is back at the start value, the collected keys are deleted in one
\* delete that is skipped when nothing matched, and when a scan or the delete
\* fails the sweep still returns and the mutation answers with its success.
C40_SweepEndsQuietly ==
    /\ [][ScanUntilCursorReturns /\ OneBulkDelete /\ ReturnsNormally]_vars
    /\ \A p \in Procs : Sweeping(p) ~> (pc[p] = "done" /\ res[p].status \in {200, 201})

\* a sweep that failed after a scan had collected keys: the keys are still
\* cached and the remove has answered 200
C40_Witness ==
    \E p \in Procs :
        /\ pc[p] = "done" /\ req[p].op = "remove"
        /\ loc[p].sweep = "failed"
        /\ res[p].status = 200
        /\ \E k \in DOMAIN cache : GlobMatch(getUserCachePattern(req[p].user), k)

=============================================================================
